---- MODULE Spec2Model ----
(***************************************************************************)
(* Model of the callsbot signal evaluator (bot/evaluator.py) together with *)
(* the parts of the Telegram handler (bot/telegram.py) and of the VIP      *)
(* watcher (bot/vip.py) that drive it.                                     *)
(*                                                                         *)
(* Time is in whole seconds.  Money amounts are whole USD.  The buy/sell   *)
(* ratio is kept in tenths (1.5 is 15).  A price multiple cur/base >= k is *)
(* written cur >= k * base, and a drawdown percentage                      *)
(* (peak - liq) / peak * 100 <= k is written (peak - liq) * 100 <= k*peak, *)
(* so that no division is needed.                                          *)
(*                                                                         *)
(* process_mention is an asyncio coroutine.  It runs without interruption  *)
(* between two awaits that reach the network; the variable running holds   *)
(* the task that owns the event loop, and is NoTask while every task is    *)
(* suspended.  Each action below is one stretch of a coroutine; a task     *)
(* gives the loop up only at an await that really suspends.                *)
(***************************************************************************)
EXTENDS Integers, Sequences, FiniteSets, TLC

VARIABLES
    now,                \* wall clock, seconds
    mentions_by_ca,     \* EvaluatorState.mentions_by_ca: ca -> Seq([ts, channel])
    last_rank_sent,     \* EvaluatorState.last_rank_sent: ca -> tier ("none": no key)
    safety_cache,       \* EvaluatorState.safety_cache: ca -> [known, mint, freeze]
    dex_cache,          \* EvaluatorState.dex_cache: ca -> [known, d, ts]
    vip_holders_by_ca,  \* EvaluatorState.vip_holders_by_ca: ca -> set of wallets
    t1_price_usd,       \* EvaluatorState.t1_price_usd: ca -> price (0: no key)
    first_seen_ts,      \* EvaluatorState.first_seen_ts: ca -> ts (-1: no key)
    peak_liquidity_usd, \* EvaluatorState.peak_liquidity_usd: ca -> usd (-1: no key)
    others_ranked,      \* keys of last_rank_sent that belong to entities outside CAs
    others_priced,      \* keys of t1_price_usd that belong to entities outside CAs
    watcher_keys,       \* the dict object vip_watcher_loop holds: [live, keys]
    T3_AGE_MIN_MINUTES, \* config: lower end of the T3 age window (env, read at import)
    pc,                 \* task -> position in Bot._on_message / process_mention
    ev,                 \* task -> locals of its process_mention call
    running,            \* the task that owns the event loop, or NoTask
    alerts,             \* ca -> tiers delivered to the alert sink, in order
    signals,            \* ca -> classifications of the SignalEvents the evaluator recorded
    holders_call,       \* a call of holders_and_whales_ok: [in, out]
    epoch_utc,          \* wall-clock second (UTC) at which the run started
    roi_horizons_min,   \* StatsRecorder.roi_horizons_min (config, read at import)
    start_price_by_ca,  \* StatsRecorder._start_price_by_ca: ca -> price (0: no key)
    signals_table,      \* rows of the signals table: [ts_utc, ca, price_usd]
    snapshots_table,    \* rows of the snapshots table: [ts_utc, ca, price_usd]
    outcomes_table,     \* rows of the outcomes table, in insertion order
    signal_call,        \* the record_signal call suspended before its INSERT
    snapshot_call,      \* the arguments of the latest record_snapshot call
    oc,                 \* locals of maybe_record_outcomes_from_snapshots
    persist_call,       \* a save and load of the evaluator state: [in, out]
    shutdown,           \* restarts so far, and last_rank_sent as the last Bot.stop saved it
    state_file,         \* the state file, the temporary file of its writer, a reader
    on_message,        \* Bot._on_message over the entities of a message: [pc, contract_addresses, i, ...]
    snapshots_loop,    \* _snapshots_loop: [pc, cas, i, handled, iterations]
    retry_call,        \* a call of with_retries: [pc, retries, backoff_sec, attempt, ...]
    vip_call,          \* a call of count_vip_holders_for_token: [in, out, ...]
    coin_counts,       \* Bot.coin_counts: ca -> mentions counted (0: no key)
    coin_tier_state,   \* Bot.coin_tier_state: ca -> highest tier sent (0: no key)
    last_t1_sent_utc,  \* Bot.last_t1_sent_utc: ca -> second (-1: no key)
    tier_alerts,       \* ca -> tiers of the count-based alerts delivered, in order
    tier_task,         \* task -> locals of its _maybe_send_tiered_alert call
    load_call,         \* a call of Bot._load_state: [file, mem, pc]
    saver_loop,        \* Bot._state_saver_loop: [running, iterations, last, file]
    perf_counter,      \* time.perf_counter(), in ticks of 1/20 s
    last_rpc_ts,       \* apis._last_rpc_ts, in ticks
    rpc_task,          \* task -> position in solana_rpc: [pc, wake]
    rpc_dispatches,    \* the times at which solana_rpc passed a request to the transport
    stop_event,        \* main.py's stop_event is set
    bot_stop_event,    \* Bot._stop_event is set
    bg_loops,          \* background loop -> [pc, iterations, cancel, late]
    main_pc,           \* position of main._run: running, stopping, closed
    tracked_others     \* the mention keys and entries of entities outside CAs (prune_memory)

vars == <<now, mentions_by_ca, last_rank_sent, safety_cache, dex_cache,
          vip_holders_by_ca, t1_price_usd, first_seen_ts, peak_liquidity_usd,
          others_ranked, others_priced, watcher_keys, T3_AGE_MIN_MINUTES,
          pc, ev, running, alerts, signals, holders_call,
          epoch_utc, roi_horizons_min, start_price_by_ca, signals_table,
          snapshots_table, outcomes_table, signal_call, snapshot_call, oc,
          persist_call, shutdown, state_file, on_message, snapshots_loop, retry_call, vip_call, coin_counts, coin_tier_state, last_t1_sent_utc, tier_alerts, tier_task, load_call, saver_loop, perf_counter, last_rpc_ts, rpc_task, rpc_dispatches, stop_event, bot_stop_event, bg_loops, main_pc, tracked_others>>

----
\* Bounds of the model.

\* Alerts recorded per entity before new evaluations of it stop being started.
MaxAlerts == 3
\* Mentions kept per entity before new evaluations of it stop being started.
MaxMentions == 4
\* The clock stops advancing after this many minutes.
MaxMinutes == 250
\* Mentions kept per entity in the specification of two concurrent handlers.
RaceMaxMentions == 2
\* The clock advances by one of these numbers of minutes at a time.
TickSteps == {100, 200}

\* The entities, channels, wallets and handler tasks of the model.
CAs == {"ca1"}
Wallets == {"vip1"}
Tasks == {"t1", "t2"}
NoTask == "none"

----
\* Program constants (config/config.py defaults, bot/evaluator.py literals).

OVERLAP_WINDOW_MIN == 15
MIN_UNIQUE_CHANNELS_T1 == 4
HOLDERS_THRESHOLD == 75
LARGEST_WALLET_MAX == 40
MINT_SAFETY_REQUIRED == TRUE
LIQ_MIN_USD == 15000
T2_LIQ_MIN_USD == 50000
T2_LIQ_DRAWDOWN_MAX_PCT == 10
T2_TXNS_H1_MIN == 500
T2_BUY_SELL_RATIO_MIN_X10 == 15
T2_AGE_MIN_MINUTES == 30
T2_AGE_MAX_MINUTES == 90
T3_MCAP_MIN_USD == 500000
T3_VOL24_MIN_USD == 2000000
T3_PRICE_MIN_X == 5
T3_PRICE_MAX_X == 20
T3_POS_TREND_REQUIRED == TRUE
T3_AGE_MIN_DEFAULT == 120
T3_AGE_MAX_MINUTES == 240
RETENTION_HOURS == 3
DEX_TTL_SEC == 60
DEX_PRUNE_SEC == 3600
max_keys == 2000
PRUNE_EVERY == 25

Tiers == {"T1", "T2", "T3"}

\* order = {'T1': 1, 'T2': 2, 'T3': 3}; order.get(x, 0)
order(t) == CASE t = "T1" -> 1 [] t = "T2" -> 2 [] t = "T3" -> 3 [] OTHER -> 0

----
\* Inputs from the external services.

\* What get_dex_metrics returns: the dict of apis.py:109-125 reduced to the keys
\* process_mention reads.  has = FALSE is the empty dict {} (fetch failed or no
\* pair); price = 0 is price_usd None; created_age is how long before time 0
\* the pair was created, in minutes (-1: pair_created_ms is None).
Dex(liq, vol24, mcap, txns, bs10, pc15, price, created_age) ==
    [has |-> TRUE, liq |-> liq, vol24 |-> vol24, mcap |-> mcap, txns |-> txns,
     bs10 |-> bs10, pc15 |-> pc15, price |-> price, created_age |-> created_age]

EmptyDex ==
    [has |-> FALSE, liq |-> 0, vol24 |-> 0, mcap |-> 0, txns |-> 0, bs10 |-> 0,
     pc15 |-> 0, price |-> 0, created_age |-> -1]

\* The market data an evaluation may receive: a pair that meets the T2 market
\* conditions only, created 45 minutes before time 0; a pair that meets the T2
\* and the T3 market conditions, created an hour before time 0; and pairs of
\* unknown creation time (aged from first_seen_ts) that meet the T3 market
\* conditions, at no price and at the prices 1, 5 and 20.
DexSamples ==
    { EmptyDex,
      Dex(60000, 300000, 800000, 600, 16, 1, 1, 45),
      Dex(100000, 3000000, 1000000, 1000, 18, 1, 5, 60),
      Dex(100000, 3000000, 1000000, 1000, 18, 1, 0, -1),
      Dex(100000, 3000000, 1000000, 1000, 18, 1, 1, -1),
      Dex(100000, 3000000, 1000000, 1000, 18, 1, 5, -1),
      Dex(100000, 3000000, 1000000, 1000, 18, 1, 20, -1) }

\* The dict made from a sample s: pair_created_ms is a point in time, in
\* seconds (-1: None), and does not move from one fetch to the next.
Fetched(s) ==
    [has |-> s.has, liq |-> s.liq, vol24 |-> s.vol24, mcap |-> s.mcap, txns |-> s.txns,
     bs10 |-> s.bs10, pc15 |-> s.pc15, price |-> s.price,
     created |-> IF s.created_age = -1 THEN -1 ELSE 0 - s.created_age * 60]

NoDict == Fetched(EmptyDex)

\* What the getAccountInfo probe yields: no data (error, timeout, empty account),
\* or mint data whose two authority options are set or cleared.
ProbeOutcomes ==
    { [data |-> FALSE, mint_auth_opt |-> 1, freeze_auth_opt |-> 1],
      [data |-> TRUE, mint_auth_opt |-> 0, freeze_auth_opt |-> 0],
      [data |-> TRUE, mint_auth_opt |-> 0, freeze_auth_opt |-> 1] }

\* What the two holder RPCs yield: err is an exception of either call; supply is
\* uiAmount of getTokenSupply; positive and max_amount summarise the balances of
\* getTokenLargestAccounts.
HolderSamples ==
    { [err |-> TRUE, supply |-> 0, positive |-> 0, max_amount |-> 0],
      [err |-> FALSE, supply |-> 1000000, positive |-> 300, max_amount |-> 5000],
      [err |-> FALSE, supply |-> 1000000, positive |-> 300, max_amount |-> 500000],
      [err |-> FALSE, supply |-> 1000000, positive |-> 1, max_amount |-> 1000] }

\* How Bot._send_evaluator_message ends: the message is delivered; a FloodWaitError
\* or RPCError is caught and the call returns without delivering; another
\* exception leaves the call.
SendOutcomes == {"sent", "absorbed", "raised"}

\* Numbers of entities outside CAs that have mentions in mentions_by_ca.
OthersTracked == {0, 24}

----
\* Pure helpers.

\* parse_mint_safety, on the result of solana_get_account_info
parse_mint_safety(o) ==
    [known |-> TRUE,
     mint |-> o.data /\ o.mint_auth_opt = 0,
     freeze |-> o.data /\ o.freeze_auth_opt = 0]

\* The loop of holders_and_whales_ok, lines 183-190, by its result: the number
\* of values above 0 and the largest value (0 for no value); a value None
\* counts as the amount 0.
HolderLoop(values) ==
    LET amounts == { values[i] : i \in 1..Len(values) } \cup {0}
    IN  [positive |-> Cardinality({ i \in 1..Len(values) : values[i] > 0 }),
         max_amount |-> CHOOSE x \in amounts : \A y \in amounts : y <= x]

\* What holders_and_whales_ok makes of the answers of its two RPCs, lines
\* 176-190: raw.supply_exc and raw.largest_exc say that the call raised,
\* raw.supply is uiAmount (0 when missing), raw.values are the uiAmounts of
\* getTokenLargestAccounts.  The second call is made only for a positive supply.
HolderSummary(raw) ==
    LET l == HolderLoop(raw.values)
    IN  [err |-> raw.supply_exc \/ (raw.supply > 0 /\ raw.largest_exc),
         supply |-> IF raw.supply_exc THEN 0 ELSE raw.supply,
         positive |-> IF raw.supply_exc \/ raw.largest_exc THEN 0 ELSE l.positive,
         max_amount |-> IF raw.supply_exc \/ raw.largest_exc THEN 0 ELSE l.max_amount]

\* A holder check without the test of the largest share.
holders_ok_whales_unchecked(h) ==
    /\ ~h.err
    /\ h.supply > 0
    /\ h.positive >= HOLDERS_THRESHOLD

\* holders_and_whales_ok, on the answers of its two RPCs
holders_and_whales_ok(h) ==
    /\ ~h.err
    /\ h.supply > 0
    /\ h.positive >= HOLDERS_THRESHOLD
    /\ h.max_amount * 100 <= LARGEST_WALLET_MAX * h.supply

\* A retention that drops nothing.
KeepEvery(arr, t) == arr

\* [m for m in arr if m.timestamp_utc >= three_hours_ago]
KeepRecent(arr, t) ==
    LET Recent(m) == m.ts >= t - RETENTION_HOURS * 3600
    IN  SelectSeq(arr, Recent)

\* The channels of all kept mentions, whatever their age; it differs from
\* unique_channels_recent in the test of the overlap window only.
UniqueChannelsKept(arr, t) == { arr[i].channel : i \in 1..Len(arr) }

\* unique_channels_recent of process_mention
UniqueChannelsRecent(arr, t) ==
    { arr[i].channel : i \in { j \in 1..Len(arr) : t - arr[j].ts <= OVERLAP_WINDOW_MIN * 60 } }

\* keys of mentions_by_ca
TrackedKeys(m) == { ca \in CAs : Len(m[ca]) > 0 }

\* len(last_rank_sent), len(t1_price_usd)
LenLastRankSent == Cardinality({ ca \in CAs : last_rank_sent[ca] # "none" }) + others_ranked
LenT1Price == Cardinality({ ca \in CAs : t1_price_usd[ca] # 0 }) + others_priced

\* age_min of process_mention, in seconds: from pair_created_ms when the dict
\* has it, else from first_seen_ts (always set by the time it is read).
AgeSeconds(e, fs) ==
    IF e.dex.has /\ e.dex.created # -1
    THEN (IF e.now - e.dex.created > 0 THEN e.now - e.dex.created ELSE 0)
    ELSE e.now - fs

\* safe_ok
SafeOk(e) == IF MINT_SAFETY_REQUIRED THEN e.mint /\ e.freeze ELSE TRUE

\* the T2 age test of line 272
InT2Window(age) ==
    /\ T2_AGE_MIN_MINUTES * 60 <= age
    /\ age <= T2_AGE_MAX_MINUTES * 60

\* An age test with the upper end of the T3 window only.
InT3WindowUpperOnly(age) == age <= T3_AGE_MAX_MINUTES * 60

\* the T3 age test of line 311
InT3Window(age) ==
    /\ T3_AGE_MIN_MINUTES * 60 <= age
    /\ age <= T3_AGE_MAX_MINUTES * 60

Max(a, b) == IF a >= b THEN a ELSE b

\* A drawdown test that any peak passes.
DrawdownIgnored(peak, liq) == TRUE

\* drawdown_pct <= T2_LIQ_DRAWDOWN_MAX_PCT, with drawdown_pct of lines 281-283
DrawdownOk(peak, liq) ==
    IF peak > 0
    THEN (IF peak - liq > 0 THEN (peak - liq) * 100 ELSE 0) <= T2_LIQ_DRAWDOWN_MAX_PCT * peak
    ELSE TRUE

\* The condition of lines 285-291, without the VIP test of line 291.
T2QualifiesWithoutVip(holders_ok, liq, peak, txns, bs10, vipn) ==
    /\ holders_ok
    /\ liq >= Max(LIQ_MIN_USD, T2_LIQ_MIN_USD)
    /\ DrawdownOk(peak, liq)
    /\ txns >= T2_TXNS_H1_MIN
    /\ bs10 >= T2_BUY_SELL_RATIO_MIN_X10

\* the condition of lines 285-292
T2Qualifies(holders_ok, liq, peak, txns, bs10, vipn) ==
    /\ holders_ok
    /\ liq >= Max(LIQ_MIN_USD, T2_LIQ_MIN_USD)
    /\ DrawdownOk(peak, liq)
    /\ txns >= T2_TXNS_H1_MIN
    /\ bs10 >= T2_BUY_SELL_RATIO_MIN_X10
    /\ vipn >= 1

\* price_ok of lines 299-308: d is the market dict, base is t1_price_usd.get(ca)
PriceOk(d, base) ==
    IF d.has /\ base # 0 /\ d.price > 0 /\ base > 0
    THEN d.price >= T3_PRICE_MIN_X * base /\ d.price < T3_PRICE_MAX_X * base
    ELSE TRUE

\* trend_ok of line 309
TrendOk(d) == IF T3_POS_TREND_REQUIRED THEN d.pc15 > 0 ELSE TRUE

\* A T3 test on the age alone, with no market condition.
T3PreconditionOnAge(age, d, base) == InT3Window(age)

\* the condition of lines 310-316, before the holder check
T3Precondition(age, d, base) ==
    /\ InT3Window(age)
    /\ d.mcap >= T3_MCAP_MIN_USD
    /\ d.vol24 >= T3_VOL24_MIN_USD
    /\ PriceOk(d, base)
    /\ TrendOk(d)

----
\* State after Bot.start(): a new Evaluator, and the state file loaded.  The
\* entities of CAs are not in the file; the file holds no entry or max_keys
\* entries of other entities, which are not mentioned again in the run.

\* The locals of a task that is not evaluating.
IdleEv ==
    [ca |-> "", ch |-> "", now |-> 0, k |-> 0, mint |-> FALSE, freeze |-> FALSE,
     dex |-> NoDict, age |-> 0, holders_ok |-> FALSE, peak |-> 0, vipn |-> 0,
     base |-> 0, prev |-> "none", cls |-> "none", stage |-> "none"]

NoSafety == [known |-> FALSE, mint |-> FALSE, freeze |-> FALSE]
NoDex == [known |-> FALSE, d |-> NoDict, ts |-> 0]

InitEvaluator(t3min, loaded) ==
    /\ now = 0
    /\ mentions_by_ca = [ca \in CAs |-> <<>>]
    /\ last_rank_sent = [ca \in CAs |-> "none"]
    /\ safety_cache = [ca \in CAs |-> NoSafety]
    /\ dex_cache = [ca \in CAs |-> NoDex]
    /\ vip_holders_by_ca = [ca \in CAs |-> {}]
    /\ t1_price_usd = [ca \in CAs |-> 0]
    /\ first_seen_ts = [ca \in CAs |-> -1]
    /\ peak_liquidity_usd = [ca \in CAs |-> -1]
    /\ others_ranked \in loaded
    /\ others_priced = others_ranked
    /\ watcher_keys = [live |-> TRUE, keys |-> {}]
    /\ T3_AGE_MIN_MINUTES = t3min
    /\ pc = [p \in Tasks |-> "idle"]
    /\ ev = [p \in Tasks |-> IdleEv]
    /\ running = NoTask
    /\ alerts = [ca \in CAs |-> <<>>]
    /\ signals = [ca \in CAs |-> <<>>]

\* No call of holders_and_whales_ok is followed on its own.
NoHoldersCall ==
    [in |-> [supply_exc |-> FALSE, supply |-> 0, largest_exc |-> FALSE, values |-> <<>>],
     out |-> "none"]

\* STATS_ROI_HORIZONS_MIN (config/config.py:198), minutes
STATS_ROI_HORIZONS_MIN == <<5, 15, 60, 240>>

\* No row, no call: the values of signal_call, snapshot_call and oc at rest.
NoRow == [ts_utc |-> -1, ca |-> "none", price_usd |-> -1]
NoOutcomesCall ==
    [pc |-> "idle", ca |-> "none", base_ts |-> -1, start_price |-> 0, i |-> 0]

\* StatsRecorder.__init__ over an empty database, started at wall-clock
\* second epoch with the horizons of the configuration.
InitStatsRecorder(horizons, epoch) ==
    /\ epoch_utc = epoch
    /\ roi_horizons_min = horizons
    /\ start_price_by_ca = [ca \in CAs |-> 0]
    /\ signals_table = {}
    /\ snapshots_table = {}
    /\ outcomes_table = <<>>
    /\ signal_call = NoRow
    /\ snapshot_call = NoRow
    /\ oc = NoOutcomesCall

\* The persisted fields of a fresh EvaluatorState: four empty dicts
FreshState ==
    [last_rank_sent |-> <<>>, t1_price_usd |-> <<>>,
     first_seen_ts |-> <<>>, peak_liquidity_usd |-> <<>>]

\* No save and load was asked for.
NoPersistCall == [in |-> FreshState, out |-> FreshState, done |-> FALSE]

\* The state file does not exist, nothing writes it, nothing has read it.
NoFile == [exists |-> FALSE, text |-> <<>>]
NoFiles ==
    [files |-> [f \in {"target", "tmp"} |-> NoFile], pc |-> "idle", data |-> 0,
     prev |-> NoFile, last |-> "none", writes |-> 0, read |-> -3, read_at |-> 0]

\* The process was never stopped.
NoShutdown == [count |-> 0, last_rank_sent |-> [ca \in CAs |-> "none"]]

\* No message is being handled, none was; the background loop sleeps
NoMessage ==
    [pc |-> "idle", contract_addresses |-> <<>>, i |-> 0, evaluated |-> {},
     coin_keys |-> <<>>, handled |-> 0, errors_total |-> 0, last |-> "none"]
NoCycle == [pc |-> "sleep", cas |-> <<>>, i |-> 0, handled |-> {}, iterations |-> 0]

\* No call of with_retries, none of count_vip_holders_for_token
NoRetryCall ==
    [pc |-> "idle", retries |-> 0, backoff_sec |-> 0, attempt |-> 0,
     history |-> <<>>, sleeps |-> <<>>, result |-> 0, raised |-> 0]
NoVipCall == [mint |-> "none", vip_wallets |-> <<>>, answers |-> <<>>,
              queried |-> <<>>, holders |-> {}, done |-> FALSE]

\* The count-based alert path of a fresh Bot (telegram.py, lines 265-270)
NoCounts == [ca \in CAs |-> 0]
NoTierState == [ca \in CAs |-> 0]
NoT1Sent == [ca \in CAs |-> -1]
NoTierAlerts == [ca \in CAs |-> <<>>]
NoTierTask == [pc |-> "idle", ca |-> "none", count |-> 0, highest |-> 0, tier |-> 0, now |-> 0]
NoTierTasks == [p \in Tasks |-> NoTierTask]

\* The state file is absent; the in-memory state of a new Bot; no load yet;
\* the saver loop has not saved yet
MissingFile == [kind |-> "missing", evaluator |-> FreshState, coin_tier_state |-> <<>>]
FreshBotState == [evaluator |-> FreshState, coin_tier_state |-> <<>>]
NoLoadCall == [file |-> MissingFile, mem |-> FreshBotState, pc |-> "start"]
NoSaver == [running |-> TRUE, iterations |-> 0, last |-> "none", file |-> MissingFile]

\* apis.py, lines 133-134, before the first call of solana_rpc; the monotonic
\* clock reads some positive value
StartClock == 10
NoRpcTs == 0
NoRpcTask == [pc |-> "idle", wake |-> 0]
NoRpcTasks == [p \in Tasks |-> NoRpcTask]
NoDispatches == <<>>

\* main._run waits in run_until_disconnected; no stop event is set; the three
\* background loops were created and have not run yet
NoStop == FALSE
MainRunning == "running"
BgLoops == {"vip_watcher", "snapshots", "state_saver"}
NewLoop == [pc |-> "new", iterations |-> 0, cancel |-> FALSE, late |-> FALSE]
NewLoops == [l \in BgLoops |-> NewLoop]

\* No entity outside CAs is tracked
NoOthers == [before |-> 0, after |-> 0, ranked |-> FALSE, pruned |-> FALSE]

InitWith(t3min, loaded) ==
    /\ InitEvaluator(t3min, loaded)
    /\ holders_call = NoHoldersCall
    /\ persist_call = NoPersistCall
    /\ shutdown = NoShutdown
    /\ state_file = NoFiles
    /\ on_message = NoMessage
    /\ snapshots_loop = NoCycle
    /\ retry_call = NoRetryCall
    /\ vip_call = NoVipCall
    /\ coin_counts = NoCounts
    /\ coin_tier_state = NoTierState
    /\ last_t1_sent_utc = NoT1Sent
    /\ tier_alerts = NoTierAlerts
    /\ tier_task = NoTierTasks
    /\ load_call = NoLoadCall
    /\ saver_loop = NoSaver
    /\ perf_counter = StartClock
    /\ last_rpc_ts = NoRpcTs
    /\ rpc_task = NoRpcTasks
    /\ rpc_dispatches = NoDispatches
    /\ stop_event = NoStop
    /\ bot_stop_event = NoStop
    /\ bg_loops = NewLoops
    /\ main_pc = MainRunning
    /\ tracked_others = NoOthers
    /\ InitStatsRecorder(STATS_ROI_HORIZONS_MIN, 0)

Init == InitWith(T3_AGE_MIN_DEFAULT, {0})

----
\* Bot._on_message and Evaluator.process_mention, one action per stretch of code
\* between two suspensions.

\* What no step of a handler, of the watcher or of the clock writes.
Frame_stats ==
    UNCHANGED <<epoch_utc, roi_horizons_min, start_price_by_ca, signals_table,
                snapshots_table, outcomes_table, signal_call, snapshot_call, oc>>
Frame_config ==
    UNCHANGED <<T3_AGE_MIN_MINUTES, holders_call, persist_call, shutdown, state_file, on_message, snapshots_loop, retry_call, vip_call, coin_counts, coin_tier_state, last_t1_sent_utc, tier_alerts, tier_task, load_call, saver_loop, perf_counter, last_rpc_ts, rpc_task, rpc_dispatches, stop_event, bot_stop_event, bg_loops, main_pc, tracked_others>>
    /\ Frame_stats

\* The channels a new mention of ca may come from: the channel of its latest
\* mention again, or the first channel of ChannelOrder that has no mention of it
\* in the list (channel names are opaque).
ChannelOrder == <<"a", "b", "c", "d">>
MentionChannels(ca) ==
    LET seen == { mentions_by_ca[ca][i].channel : i \in 1..Len(mentions_by_ca[ca]) }
        fresh == { i \in 1..Len(ChannelOrder) : ChannelOrder[i] \notin seen }
        n == Len(mentions_by_ca[ca])
        last == IF n = 0 THEN {} ELSE {mentions_by_ca[ca][n].channel}
    IN  last \cup { ChannelOrder[i] : i \in { j \in fresh : \A l \in fresh : j <= l } }

\* Handler tasks are interchangeable: a new handler takes the first free slot.
TaskBefore(q, p) == q = "t1" /\ p = "t2"

\* A note of the time of every mention, the latest one winning
LatestSeenTs(seen, t) == t

\* process_mention, lines 209-210: 'if ca not in self.state.first_seen_ts'; -1
\* stands for no entry
FirstSeenTs(seen, t) == IF seen = -1 THEN t ELSE seen

\* process_mention, lines 205-231: append the mention, note first_seen_ts, drop
\* mentions older than three hours, count the recent unique channels.
Start(p, ca, ch, max_mentions, max_alerts) ==
    /\ running = NoTask
    /\ pc[p] = "idle"
    /\ \A q \in Tasks : TaskBefore(q, p) => pc[q] # "idle"
    /\ Len(alerts[ca]) < max_alerts
    /\ LET arr == Append(mentions_by_ca[ca], [ts |-> now, channel |-> ch])
           kept == KeepRecent(arr, now)
       IN  /\ Len(kept) <= max_mentions
           /\ mentions_by_ca' = [mentions_by_ca EXCEPT ![ca] = kept]
           /\ first_seen_ts' = [first_seen_ts EXCEPT ![ca] = FirstSeenTs(@, now)]
           /\ ev' = [ev EXCEPT ![p] = [IdleEv EXCEPT
                        !.ca = ca, !.ch = ch, !.now = now,
                        !.k = Cardinality(UniqueChannelsRecent(kept, now)),
                        !.stage = "started"]]
    /\ pc' = [pc EXCEPT ![p] = "safety"]
    /\ running' = p
    /\ UNCHANGED <<now, last_rank_sent, safety_cache, dex_cache, vip_holders_by_ca,
                   t1_price_usd, peak_liquidity_usd, others_ranked, others_priced,
                   watcher_keys, alerts, signals>>
    /\ Frame_config

\* ensure_safety_checked, lines 161-162: a cached result is returned at once;
\* otherwise the task suspends in the probe.
SafetyCheck(p) ==
    /\ running = p
    /\ pc[p] = "safety"
    /\ LET c == safety_cache[ev[p].ca]
       IN  IF c.known
           THEN /\ ev' = [ev EXCEPT ![p].mint = c.mint, ![p].freeze = c.freeze]
                /\ pc' = [pc EXCEPT ![p] = "dex"]
                /\ running' = p
           ELSE /\ ev' = ev
                /\ pc' = [pc EXCEPT ![p] = "await_safety"]
                /\ running' = NoTask
    /\ UNCHANGED <<now, mentions_by_ca, last_rank_sent, safety_cache, dex_cache,
                   vip_holders_by_ca, t1_price_usd, first_seen_ts, peak_liquidity_usd,
                   others_ranked, others_priced, watcher_keys, alerts, signals>>
    /\ Frame_config

\* ensure_safety_checked, lines 163-172: the probe returns; whatever it gave is
\* cached (no data is cached as (False, False)).
SafetyReturn(p, o) ==
    /\ running = NoTask
    /\ pc[p] = "await_safety"
    /\ LET r == parse_mint_safety(o)
       IN  /\ safety_cache' = [safety_cache EXCEPT ![ev[p].ca] = r]
           /\ ev' = [ev EXCEPT ![p].mint = r.mint, ![p].freeze = r.freeze]
    /\ pc' = [pc EXCEPT ![p] = "dex"]
    /\ running' = p
    /\ UNCHANGED <<now, mentions_by_ca, last_rank_sent, dex_cache,
                   vip_holders_by_ca, t1_price_usd, first_seen_ts, peak_liquidity_usd,
                   others_ranked, others_priced, watcher_keys, alerts, signals>>
    /\ Frame_config

\* The test of line 236: the cached market dict is used unless it is missing or
\* more than 60 seconds older than this evaluation's now.
DexFresh(c, t) == c.known /\ ~(t - c.ts > DEX_TTL_SEC)

\* process_mention, lines 235-236
DexCheck(p) ==
    /\ running = p
    /\ pc[p] = "dex"
    /\ LET c == dex_cache[ev[p].ca]
       IN  IF DexFresh(c, ev[p].now)
           THEN /\ ev' = [ev EXCEPT ![p].dex = c.d]
                /\ pc' = [pc EXCEPT ![p] = "classify"]
                /\ running' = p
           ELSE /\ ev' = ev
                /\ pc' = [pc EXCEPT ![p] = "await_dex"]
                /\ running' = NoTask
    /\ UNCHANGED <<now, mentions_by_ca, last_rank_sent, safety_cache, dex_cache,
                   vip_holders_by_ca, t1_price_usd, first_seen_ts, peak_liquidity_usd,
                   others_ranked, others_priced, watcher_keys, alerts, signals>>
    /\ Frame_config

\* process_mention, lines 237-240: get_dex_metrics returns; the dict is cached
\* with the evaluation's own now as its timestamp.
DexReturn(p, s) ==
    /\ running = NoTask
    /\ pc[p] = "await_dex"
    /\ dex_cache' = [dex_cache EXCEPT ![ev[p].ca] =
                        [known |-> TRUE, d |-> Fetched(s), ts |-> ev[p].now]]
    /\ ev' = [ev EXCEPT ![p].dex = Fetched(s)]
    /\ pc' = [pc EXCEPT ![p] = "classify"]
    /\ running' = p
    /\ UNCHANGED <<now, mentions_by_ca, last_rank_sent, safety_cache,
                   vip_holders_by_ca, t1_price_usd, first_seen_ts, peak_liquidity_usd,
                   others_ranked, others_priced, watcher_keys, alerts, signals>>
    /\ Frame_config

\* process_mention, lines 242-272: raise the liquidity peak, then, when safety is
\* ok, work out the age; inside the T2 window the holder check is awaited.
Classify(p) ==
    /\ running = p
    /\ pc[p] = "classify"
    /\ LET e == ev[p]
           liq == e.dex.liq
           prev_peak == IF peak_liquidity_usd[e.ca] = -1 THEN 0 ELSE peak_liquidity_usd[e.ca]
           age == AgeSeconds(e, first_seen_ts[e.ca])
       IN  /\ peak_liquidity_usd' =
                 IF liq > 0 /\ liq > prev_peak
                 THEN [peak_liquidity_usd EXCEPT ![e.ca] = liq]
                 ELSE peak_liquidity_usd
           /\ IF ~SafeOk(e)
              THEN /\ ev' = ev
                   /\ pc' = [pc EXCEPT ![p] = "t1"]
                   /\ running' = p
              ELSE IF InT2Window(age)
              THEN /\ ev' = [ev EXCEPT ![p].age = age]
                   /\ pc' = [pc EXCEPT ![p] = "await_holders2"]
                   /\ running' = NoTask
              ELSE /\ ev' = [ev EXCEPT ![p].age = age]
                   /\ pc' = [pc EXCEPT ![p] = "t3"]
                   /\ running' = p
    /\ UNCHANGED <<now, mentions_by_ca, last_rank_sent, safety_cache, dex_cache,
                   vip_holders_by_ca, t1_price_usd, first_seen_ts,
                   others_ranked, others_priced, watcher_keys, alerts, signals>>
    /\ Frame_config

\* process_mention, lines 274-293: the holder check returns; the peak and the VIP
\* set are read now, and the T2 condition decides.
Holders2Return(p, h) ==
    /\ running = NoTask
    /\ pc[p] = "await_holders2"
    /\ LET e == ev[p]
           ok == holders_and_whales_ok(h)
           peak == IF peak_liquidity_usd[e.ca] = -1 THEN e.dex.liq ELSE peak_liquidity_usd[e.ca]
           vipn == Cardinality(vip_holders_by_ca[e.ca])
           t2 == T2Qualifies(ok, e.dex.liq, peak, e.dex.txns, e.dex.bs10, vipn)
       IN  /\ ev' = [ev EXCEPT ![p].holders_ok = ok, ![p].peak = peak, ![p].vipn = vipn,
                               ![p].cls = IF t2 THEN "T2" ELSE "none"]
           /\ pc' = [pc EXCEPT ![p] = IF t2 THEN "t1" ELSE "t3"]
    /\ running' = p
    /\ UNCHANGED <<now, mentions_by_ca, last_rank_sent, safety_cache, dex_cache,
                   vip_holders_by_ca, t1_price_usd, first_seen_ts, peak_liquidity_usd,
                   others_ranked, others_priced, watcher_keys, alerts, signals>>
    /\ Frame_config

\* process_mention, lines 296-316: reached only without a classification; the
\* T3 conditions on age, market and price are tested before the holder check.
T3Check(p) ==
    /\ running = p
    /\ pc[p] = "t3"
    /\ LET e == ev[p]
           base == t1_price_usd[e.ca]
       IN  IF T3Precondition(e.age, e.dex, base)
           THEN /\ ev' = [ev EXCEPT ![p].base = base]
                /\ pc' = [pc EXCEPT ![p] = "await_holders3"]
                /\ running' = NoTask
           ELSE /\ ev' = [ev EXCEPT ![p].base = base]
                /\ pc' = [pc EXCEPT ![p] = "t1"]
                /\ running' = p
    /\ UNCHANGED <<now, mentions_by_ca, last_rank_sent, safety_cache, dex_cache,
                   vip_holders_by_ca, t1_price_usd, first_seen_ts, peak_liquidity_usd,
                   others_ranked, others_priced, watcher_keys, alerts, signals>>
    /\ Frame_config

\* process_mention, lines 318-325: the holder check of T3 returns.
Holders3Return(p, h) ==
    /\ running = NoTask
    /\ pc[p] = "await_holders3"
    /\ LET ok == holders_and_whales_ok(h)
       IN  ev' = [ev EXCEPT ![p].holders_ok = ok,
                            ![p].cls = IF ok THEN "T3" ELSE "none"]
    /\ pc' = [pc EXCEPT ![p] = "t1"]
    /\ running' = p
    /\ UNCHANGED <<now, mentions_by_ca, last_rank_sent, safety_cache, dex_cache,
                   vip_holders_by_ca, t1_price_usd, first_seen_ts, peak_liquidity_usd,
                   others_ranked, others_priced, watcher_keys, alerts, signals>>
    /\ Frame_config

\* process_mention, lines 327-332: T1 on social consensus alone; without any
\* classification the evaluation returns.
T1Check(p) ==
    /\ running = p
    /\ pc[p] = "t1"
    /\ LET e == ev[p]
           cls == IF e.cls = "none" /\ e.k >= MIN_UNIQUE_CHANNELS_T1 THEN "T1" ELSE e.cls
       IN  /\ ev' = [ev EXCEPT ![p].cls = cls,
                               ![p].stage = IF cls = "none" THEN "unclassified" ELSE "classified"]
           /\ pc' = [pc EXCEPT ![p] = IF cls = "none" THEN "returned" ELSE "gate"]
    /\ running' = p
    /\ UNCHANGED <<now, mentions_by_ca, last_rank_sent, safety_cache, dex_cache,
                   vip_holders_by_ca, t1_price_usd, first_seen_ts, peak_liquidity_usd,
                   others_ranked, others_priced, watcher_keys, alerts, signals>>
    /\ Frame_config

\* A gate that lets a proposal of the stored rank through; it differs from
\* line 336 in the comparison only.
GateRejectsLowerOnly(prev, cls) == prev # "none" /\ order(prev) > order(cls)

\* The test of line 336: the proposal is dropped when a tier of the same or a
\* higher rank was sent before.
GateRejects(prev, cls) == prev # "none" /\ order(prev) >= order(cls)

\* process_mention, lines 334-360: the gate, the latch of the T1 price, and the
\* call of send_message, in which the task suspends.
Gate(p) ==
    /\ running = p
    /\ pc[p] = "gate"
    /\ LET e == ev[p]
           prev == last_rank_sent[e.ca]
       IN  IF GateRejects(prev, e.cls)
           THEN /\ ev' = [ev EXCEPT ![p].prev = prev, ![p].stage = "rejected"]
                /\ pc' = [pc EXCEPT ![p] = "returned"]
                /\ running' = p
                /\ UNCHANGED t1_price_usd
           ELSE /\ ev' = [ev EXCEPT ![p].prev = prev, ![p].stage = "accepted"]
                /\ pc' = [pc EXCEPT ![p] = "await_send"]
                /\ running' = NoTask
                /\ t1_price_usd' =
                      IF e.cls = "T1" /\ t1_price_usd[e.ca] = 0 /\ e.dex.has /\ e.dex.price # 0
                      THEN [t1_price_usd EXCEPT ![e.ca] = e.dex.price]
                      ELSE t1_price_usd
    /\ UNCHANGED <<now, mentions_by_ca, last_rank_sent, safety_cache, dex_cache,
                   vip_holders_by_ca, first_seen_ts, peak_liquidity_usd,
                   others_ranked, others_priced, watcher_keys, alerts, signals>>
    /\ Frame_config

\* No SignalEvent is written
WithoutSignalEvent(ca, cls) == signals

\* StatsRecorder.record_signal of a SignalEvent with this entity and
\* classification: the events persisted, by entity
WithSignalEvent(ca, cls) == [signals EXCEPT ![ca] = Append(@, cls)]

\* process_mention, lines 360-361, with Bot._send_evaluator_message: when the
\* send returns, delivered or not, the tier is recorded as sent; an exception
\* that leaves the send ends the handler (the except of Bot._on_message).
\* After a delivered send _send_evaluator_message records a SignalEvent of the
\* tier itself (telegram.py, lines 389-412).
SendReturn(p, outcome) ==
    /\ running = NoTask
    /\ pc[p] = "await_send"
    /\ LET e == ev[p]
       IN  /\ alerts' = IF outcome = "sent"
                        THEN [alerts EXCEPT ![e.ca] = Append(@, e.cls)]
                        ELSE alerts
           /\ IF outcome = "raised"
              THEN /\ UNCHANGED last_rank_sent
                   /\ pc' = [pc EXCEPT ![p] = "idle"]
                   /\ ev' = [ev EXCEPT ![p] = IdleEv]
              ELSE /\ last_rank_sent' = [last_rank_sent EXCEPT ![e.ca] = e.cls]
                   /\ pc' = [pc EXCEPT ![p] = "await_signal"]
                   /\ ev' = [ev EXCEPT ![p].stage = "sent"]
           /\ signals' = IF outcome = "sent"
                         THEN WithSignalEvent(e.ca, e.cls)
                         ELSE signals
    /\ running' = NoTask
    /\ UNCHANGED <<now, mentions_by_ca, safety_cache, dex_cache,
                   vip_holders_by_ca, t1_price_usd, first_seen_ts, peak_liquidity_usd,
                   others_ranked, others_priced, watcher_keys>>
    /\ Frame_config

\* process_mention, lines 365-385: the SignalEvent of the accepted tier is
\* recorded, and process_mention returns.
SignalReturn(p) ==
    /\ running = NoTask
    /\ pc[p] = "await_signal"
    /\ signals' = WithSignalEvent(ev[p].ca, ev[p].cls)
    /\ pc' = [pc EXCEPT ![p] = "returned"]
    /\ running' = p
    /\ UNCHANGED <<now, mentions_by_ca, last_rank_sent, safety_cache, dex_cache,
                   vip_holders_by_ca, t1_price_usd, first_seen_ts, peak_liquidity_usd,
                   others_ranked, others_priced, watcher_keys, alerts, ev>>
    /\ Frame_config

\* Evaluator.prune_memory, lines 136-141: the new mentions dict
PrunedMentions == [ca \in CAs |-> KeepRecent(mentions_by_ca[ca], now)]

\* Evaluator.prune_memory, lines 143-149: the new market cache
PrunedDex ==
    [ca \in CAs |-> IF dex_cache[ca].known /\ now - dex_cache[ca].ts <= DEX_PRUNE_SEC
                    THEN dex_cache[ca] ELSE NoDex]

\* Evaluator.prune_memory, lines 152-155: above max_keys entries only the keys
\* of the pruned mentions dict are kept.
PrunedLastRankSent ==
    IF LenLastRankSent > max_keys
    THEN [ca \in CAs |-> IF ca \in TrackedKeys(PrunedMentions)
                         THEN last_rank_sent[ca] ELSE "none"]
    ELSE last_rank_sent

\* Evaluator.prune_memory, lines 156-158
PrunedT1Price ==
    IF LenT1Price > max_keys
    THEN [ca \in CAs |-> IF ca \in TrackedKeys(PrunedMentions)
                         THEN t1_price_usd[ca] ELSE 0]
    ELSE t1_price_usd

\* The VIP sets with the sets of the entities that lost all their mentions
\* removed
VipHoldersOfTracked ==
    [ca \in CAs |-> IF ca \in TrackedKeys(PrunedMentions)
                    THEN vip_holders_by_ca[ca] ELSE {}]

\* Evaluator.prune_memory, lines 132-158: no statement of it reads or writes
\* vip_holders_by_ca
PrunedVipHolders == vip_holders_by_ca

\* Evaluator.prune_memory.  The mentions dict is replaced by a new object, so a
\* holder of the old object (the VIP watcher) keeps the old keys.
prune_memory ==
    /\ mentions_by_ca' = PrunedMentions
    /\ vip_holders_by_ca' = PrunedVipHolders
    /\ dex_cache' = PrunedDex
    /\ last_rank_sent' = PrunedLastRankSent
    /\ others_ranked' = IF LenLastRankSent > max_keys THEN 0 ELSE others_ranked
    /\ t1_price_usd' = PrunedT1Price
    /\ others_priced' = IF LenT1Price > max_keys THEN 0 ELSE others_priced
    /\ watcher_keys' = IF watcher_keys.live
                       THEN [live |-> FALSE, keys |-> TrackedKeys(mentions_by_ca)]
                       ELSE watcher_keys

\* The test of telegram.py line 351, with n entities outside CAs being tracked
PruneDue(n) == (Cardinality(TrackedKeys(mentions_by_ca)) + n) % PRUNE_EVERY = 0

\* Bot._on_message, lines 350-352: after process_mention returned, memory is
\* pruned when the number of tracked entities is a multiple of 25.
AfterMention(p, n) ==
    /\ running = p
    /\ pc[p] = "returned"
    /\ IF PruneDue(n)
       THEN prune_memory
       ELSE UNCHANGED <<mentions_by_ca, dex_cache, last_rank_sent, others_ranked,
                        t1_price_usd, others_priced, watcher_keys,
                        vip_holders_by_ca>>
    /\ pc' = [pc EXCEPT ![p] = "idle"]
    /\ ev' = [ev EXCEPT ![p] = IdleEv]
    /\ running' = NoTask
    /\ UNCHANGED <<now, safety_cache, first_seen_ts,
                   peak_liquidity_usd, alerts, signals>>
    /\ Frame_config

\* Bot._on_message for an entity outside CAs, lines 349-352: its evaluation
\* touches no entry of an entity of CAs; the pruning after it does.
OtherMention(n) ==
    /\ running = NoTask
    /\ n > 0
    /\ PruneDue(n)
    /\ prune_memory
    /\ UNCHANGED <<now, safety_cache, first_seen_ts,
                   peak_liquidity_usd, pc, ev, running, alerts, signals>>
    /\ Frame_config

\* vip_watcher_loop, lines 70-83: for a key of the dict it holds, a wallet found
\* to hold the entity is added to the entity's set.
WatchedKeys == IF watcher_keys.live THEN TrackedKeys(mentions_by_ca) ELSE watcher_keys.keys

VipFound(ca, w) ==
    /\ running = NoTask
    /\ ca \in WatchedKeys
    /\ w \notin vip_holders_by_ca[ca]
    /\ vip_holders_by_ca' = [vip_holders_by_ca EXCEPT ![ca] = @ \cup {w}]
    /\ UNCHANGED <<now, mentions_by_ca, last_rank_sent, safety_cache, dex_cache,
                   t1_price_usd, first_seen_ts, peak_liquidity_usd, others_ranked,
                   others_priced, watcher_keys, pc, ev, running, alerts, signals>>
    /\ Frame_config

\* Time passes between handlers: a clock step is longer than any request of a
\* handler takes, so no handler is in flight over it.
Tick(minutes, max_minutes) ==
    /\ running = NoTask
    /\ \A p \in Tasks : pc[p] = "idle"
    /\ now + minutes * 60 <= max_minutes * 60
    /\ now' = now + minutes * 60
    /\ UNCHANGED <<mentions_by_ca, last_rank_sent, safety_cache, dex_cache,
                   vip_holders_by_ca, t1_price_usd, first_seen_ts, peak_liquidity_usd,
                   others_ranked, others_priced, watcher_keys, pc, ev, running,
                   alerts, signals>>
    /\ Frame_config

\* One step of the program under the inputs I: the handler tasks I.tasks, the
\* market samples I.dex, the probe outcomes I.probes, the holder samples
\* I.holders, the send outcomes I.sends, the numbers I.others of tracked
\* entities outside CAs, and the clock steps I.ticks.
NextWith(I) ==
    \/ \E p \in I.tasks, ca \in CAs : \E ch \in MentionChannels(ca) :
          Start(p, ca, ch, I.max_mentions, I.max_alerts)
    \/ \E p \in I.tasks : SafetyCheck(p)
    \/ \E p \in I.tasks, o \in I.probes : SafetyReturn(p, o)
    \/ \E p \in I.tasks : DexCheck(p)
    \/ \E p \in I.tasks, s \in I.dex : DexReturn(p, s)
    \/ \E p \in I.tasks : Classify(p)
    \/ \E p \in I.tasks, h \in I.holders : Holders2Return(p, h)
    \/ \E p \in I.tasks : T3Check(p)
    \/ \E p \in I.tasks, h \in I.holders : Holders3Return(p, h)
    \/ \E p \in I.tasks : T1Check(p)
    \/ \E p \in I.tasks : Gate(p)
    \/ \E p \in I.tasks, outcome \in I.sends : SendReturn(p, outcome)
    \/ \E p \in I.tasks : SignalReturn(p)
    \/ \E p \in I.tasks, n \in I.others : AfterMention(p, n)
    \/ \E n \in I.others : OtherMention(n)
    \/ \E ca \in CAs, w \in Wallets : VipFound(ca, w)
    \/ \E m \in I.ticks : Tick(m, I.max_minutes)

Inputs ==
    [tasks |-> {"t1"}, dex |-> DexSamples, probes |-> ProbeOutcomes,
     holders |-> HolderSamples, sends |-> SendOutcomes, others |-> OthersTracked,
     ticks |-> TickSteps, max_mentions |-> MaxMentions, max_alerts |-> MaxAlerts,
     max_minutes |-> MaxMinutes]

Next == NextWith(Inputs)

Spec == Init /\ [][Next]_vars

----
\* Further specifications.  They share every action with Spec and differ in
\* the inputs and in the state the run starts from.

ProbeFailed == [data |-> FALSE, mint_auth_opt |-> 1, freeze_auth_opt |-> 1]
ProbeRevoked == [data |-> TRUE, mint_auth_opt |-> 0, freeze_auth_opt |-> 0]
HoldersErr == [err |-> TRUE, supply |-> 0, positive |-> 0, max_amount |-> 0]
HoldersGood == [err |-> FALSE, supply |-> 1000000, positive |-> 300, max_amount |-> 5000]
DexYoung == Dex(100000, 3000000, 1000000, 1000, 18, 1, 5, 60)
DexUnaged == Dex(100000, 3000000, 1000000, 1000, 18, 1, 1, -1)

LeanInputs ==
    [tasks |-> {"t1"}, dex |-> {DexYoung, DexUnaged},
     probes |-> {ProbeFailed, ProbeRevoked}, holders |-> {HoldersErr, HoldersGood},
     sends |-> {"sent"}, others |-> {0, 24}, ticks |-> TickSteps,
     max_mentions |-> MaxMentions, max_alerts |-> MaxAlerts, max_minutes |-> MaxMinutes]

\* One handler at a time; the state file held max_keys entries of other entities.
InitLoaded == InitWith(T3_AGE_MIN_DEFAULT, {max_keys})
NextLoaded == NextWith(LeanInputs)
SpecLoaded == InitLoaded /\ [][NextLoaded]_vars

\* Two handlers at a time (Telethon runs the handler of each update as a task
\* of its own, so two calls of Bot._on_message interleave at their awaits).
RaceInputs ==
    [LeanInputs EXCEPT !.tasks = Tasks, !.max_mentions = RaceMaxMentions]
NextRace == NextWith(RaceInputs)
SpecRace == Init /\ [][NextRace]_vars

\* One handler at a time, under a configuration whose T3 age window starts
\* inside the T2 age window (T3_AGE_MIN_MINUTES=60).
T3_AGE_MIN_OVERLAP == 60
InitOverlap == InitWith(T3_AGE_MIN_OVERLAP, {0})
NextOverlap == NextWith(LeanInputs)
SpecOverlap == InitOverlap /\ [][NextOverlap]_vars

----
\* Properties of the alert gate (process_mention, lines 334-361)

\* C1: for each entity the alerts that were sent, in the order they were sent,
\* have strictly increasing ranks, whatever evaluations and prunings happen.
C1_AlertRanksIncrease ==
    \A ca \in CAs : \A i, j \in 1..Len(alerts[ca]) :
        i < j => order(alerts[ca][i]) < order(alerts[ca][j])

\* C2: two evaluations of one entity that run at the same time never both send
\* an alert of the same tier: no tier appears twice among the alerts sent.
C2_NoTierSentTwice ==
    \A ca \in CAs : \A i, j \in 1..Len(alerts[ca]) :
        i # j => alerts[ca][i] # alerts[ca][j]

\* C3: the rank of last_rank_sent never decreases from one state to the next,
\* and every write of it by an evaluation raises the rank.
C3_RankForwardOnly ==
    [][\A ca \in CAs :
          /\ order(last_rank_sent'[ca]) >= order(last_rank_sent[ca])
          /\ (\E p \in Tasks : pc[p] = "await_send" /\ pc'[p] = "await_signal"
                               /\ ev[p].ca = ca)
                => order(last_rank_sent'[ca]) > order(last_rank_sent[ca])]_vars

\* C4: when the proposed tier's rank is at most the rank of the stored tier, the
\* gate step rejects: no alert is sent, no SignalEvent is recorded, the stored
\* tier and the T1 reference price stay as they are, and process_mention returns.
C4_GateRejectsLowerOrEqual ==
    [][\A p \in Tasks :
          (/\ running = p
           /\ pc[p] = "gate"
           /\ order(ev[p].cls) <= order(last_rank_sent[ev[p].ca]))
          => /\ pc'[p] = "returned"
             /\ alerts' = alerts
             /\ signals' = signals
             /\ last_rank_sent' = last_rank_sent
             /\ t1_price_usd' = t1_price_usd]_vars

\* A T1 proposal was rejected by the gate because T2 had been sent before.
C4_Witness ==
    \E p \in Tasks :
        /\ pc[p] = "returned"
        /\ ev[p].stage = "rejected"
        /\ ev[p].cls = "T1"
        /\ ev[p].prev = "T2"
        /\ last_rank_sent[ev[p].ca] = "T2"

\* C5: once an entity's T1 reference price is latched, no step changes or
\* removes it.
C5_T1PriceWriteOnce ==
    [][\A ca \in CAs :
          t1_price_usd[ca] # 0 => t1_price_usd'[ca] = t1_price_usd[ca]]_vars

----
\* Properties of the classification (process_mention, lines 216-332)

\* C6: the tiers are tried T3 first, then T2, then T1: an evaluation whose inputs
\* meet the T2 conditions and the T3 conditions is classified T3, so no
\* evaluation whose inputs meet the T3 conditions is classified T2.
C6_T3BeforeT2 ==
    [][\A p \in Tasks :
          (ev[p].cls # "T2" /\ ev'[p].cls = "T2")
          => ~(/\ SafeOk(ev[p])
               /\ T3Precondition(AgeSeconds(ev[p], first_seen_ts[ev[p].ca]),
                                 ev[p].dex, t1_price_usd[ev[p].ca])
               /\ ev'[p].holders_ok)]_vars

\* C7: the count of an evaluation is the number of distinct channels among the
\* entity's mentions of the last OVERLAP_WINDOW_MIN minutes; the evaluation
\* proposes T1 exactly when neither T2 nor T3 qualified and that count is at
\* least MIN_UNIQUE_CHANNELS_T1, whatever safety and market data say; and the
\* gate accepts a T1 proposal when no tier was sent before.
C7_T1OnConsensus ==
    [][\A p \in Tasks :
          /\ (pc[p] = "idle" /\ pc'[p] = "safety")
             => LET arr == mentions_by_ca'[ev'[p].ca]
                    InWindow(i) == now - arr[i].ts <= OVERLAP_WINDOW_MIN * 60
                    heard == { c \in { ChannelOrder[n] : n \in 1..Len(ChannelOrder) } :
                                 \E i \in 1..Len(arr) : arr[i].channel = c /\ InWindow(i) }
                IN  ev'[p].k = Cardinality(heard)
          /\ (pc[p] = "t1" /\ pc'[p] # "t1")
             => (ev'[p].cls = "T1"
                   <=> (ev[p].cls = "none" /\ ev[p].k >= MIN_UNIQUE_CHANNELS_T1))
          /\ (pc[p] = "gate" /\ pc'[p] # "gate" /\ ev[p].cls = "T1"
                /\ last_rank_sent[ev[p].ca] = "none")
             => (pc'[p] = "await_send" /\ ev'[p].stage = "accepted")]_vars

\* The fourth mention, from a fourth channel, of an entity whose safety probe
\* and market fetch both failed: T1 was proposed and the gate accepted it.
C7_Witness ==
    \E p \in Tasks :
        /\ pc[p] = "await_send"
        /\ ev[p].cls = "T1"
        /\ ev[p].stage = "accepted"
        /\ ev[p].prev = "none"
        /\ ev[p].k = 4
        /\ Len(mentions_by_ca[ev[p].ca]) = 4
        /\ ~ev[p].dex.has
        /\ ~ev[p].mint /\ ~ev[p].freeze
        /\ alerts[ev[p].ca] = <<>>

\* C8: an evaluation becomes T2 only if safety is ok, the age is within
\* [T2_AGE_MIN_MINUTES, T2_AGE_MAX_MINUTES], the holder check passed, liquidity
\* is at least the larger of the two floors, the drawdown from the stored peak
\* is at most T2_LIQ_DRAWDOWN_MAX_PCT percent, the hourly transactions and the
\* buy/sell ratio reach their minima, and a VIP wallet is recorded.
C8_T2Only ==
    [][\A p \in Tasks :
          (ev[p].cls # "T2" /\ ev'[p].cls = "T2")
          => LET e == ev[p]
                 d == e.dex
                 age == IF d.has /\ d.created # -1
                        THEN Max(0, e.now - d.created)
                        ELSE e.now - first_seen_ts[e.ca]
                 peak == peak_liquidity_usd[e.ca]
             IN  /\ e.mint /\ e.freeze
                 /\ T2_AGE_MIN_MINUTES * 60 <= age /\ age <= T2_AGE_MAX_MINUTES * 60
                 /\ ev'[p].holders_ok
                 /\ d.liq >= LIQ_MIN_USD /\ d.liq >= T2_LIQ_MIN_USD
                 /\ peak >= d.liq
                 /\ (peak - d.liq) * 100 <= T2_LIQ_DRAWDOWN_MAX_PCT * peak
                 /\ d.txns >= T2_TXNS_H1_MIN
                 /\ d.bs10 >= T2_BUY_SELL_RATIO_MIN_X10
                 /\ vip_holders_by_ca[e.ca] # {}]_vars

\* An evaluation classified T2 whose alert was sent.
C8_Witness ==
    \E p \in Tasks :
        /\ ev[p].cls = "T2"
        /\ ev[p].stage = "sent"
        /\ alerts[ev[p].ca] = <<"T2">>

\* C9: an evaluation becomes T3 only if safety is ok, the age is within
\* [T3_AGE_MIN_MINUTES, T3_AGE_MAX_MINUTES], market cap and 24h volume reach
\* their minima, the 15-minute change is positive when a positive trend is
\* required, and the holder check passed.
C9_T3Only ==
    [][\A p \in Tasks :
          (ev[p].cls # "T3" /\ ev'[p].cls = "T3")
          => LET e == ev[p]
                 d == e.dex
                 age == IF d.has /\ d.created # -1
                        THEN Max(0, e.now - d.created)
                        ELSE e.now - first_seen_ts[e.ca]
             IN  /\ e.mint /\ e.freeze
                 /\ T3_AGE_MIN_MINUTES * 60 <= age /\ age <= T3_AGE_MAX_MINUTES * 60
                 /\ d.mcap >= T3_MCAP_MIN_USD
                 /\ d.vol24 >= T3_VOL24_MIN_USD
                 /\ (T3_POS_TREND_REQUIRED => d.pc15 > 0)
                 /\ ev'[p].holders_ok]_vars

\* An evaluation classified T3 whose alert was sent.
C9_Witness ==
    \E p \in Tasks :
        /\ ev[p].cls = "T3"
        /\ ev[p].stage = "sent"
        /\ Len(alerts[ev[p].ca]) >= 1
        /\ alerts[ev[p].ca][Len(alerts[ev[p].ca])] = "T3"

\* C10: when the evaluation found a T1 reference price, it becomes T3 only if
\* the current price divided by the reference is in [T3_PRICE_MIN_X,
\* T3_PRICE_MAX_X).
C10_T3PriceBand ==
    [][\A p \in Tasks :
          (ev[p].cls # "T3" /\ ev'[p].cls = "T3" /\ ev[p].base # 0)
          => /\ ev[p].dex.price >= T3_PRICE_MIN_X * ev[p].base
             /\ ev[p].dex.price < T3_PRICE_MAX_X * ev[p].base]_vars

----
\* Properties of the caches (ensure_safety_checked; process_mention, lines 234-247)

\* C11: the safety probe is invoked at most once per entity: the probes of an
\* entity that are in flight, plus one if a result is already memoized, are
\* never more than one, also when evaluations of the entity overlap.
C11_OneProbePerEntity ==
    \A ca \in CAs :
        Cardinality({ p \in Tasks : pc[p] = "await_safety" /\ ev[p].ca = ca })
          + (IF safety_cache[ca].known THEN 1 ELSE 0) <= 1

\* A run in which the clock also advances by seconds between handlers, so that
\* a cached market dict is met at ages below, at and above 60 seconds.
MaxSeconds == 120
ElapseSteps == {30, 60}

Elapse(seconds, max_seconds) ==
    /\ running = NoTask
    /\ \A p \in Tasks : pc[p] = "idle"
    /\ now + seconds <= max_seconds
    /\ now' = now + seconds
    /\ UNCHANGED <<mentions_by_ca, last_rank_sent, safety_cache, dex_cache,
                   vip_holders_by_ca, t1_price_usd, first_seen_ts, peak_liquidity_usd,
                   others_ranked, others_priced, watcher_keys, pc, ev, running,
                   alerts, signals>>
    /\ Frame_config

SecondsMaxMentions == 2
SecondsInputs == [LeanInputs EXCEPT !.max_mentions = SecondsMaxMentions]
NextSeconds ==
    \/ NextWith(SecondsInputs)
    \/ \E s \in ElapseSteps : Elapse(s, MaxSeconds)
SpecSeconds == Init /\ [][NextSeconds]_vars

\* C12: an evaluation reuses the cached market dict of its entity if and only
\* if the dict is less than 60 seconds old; at 60 seconds or more it fetches
\* again (and the fetch replaces the cache entry).
C12_ReuseBelowTtl ==
    [][\A p \in Tasks :
          (pc[p] = "dex" /\ pc'[p] # "dex")
          => LET c == dex_cache[ev[p].ca]
                 young == c.known /\ ev[p].now - c.ts < DEX_TTL_SEC
             IN  /\ young => (pc'[p] = "classify" /\ ev'[p].dex = c.d)
                 /\ ~young => pc'[p] = "await_dex"]_vars

----
\* Properties of the mention list (process_mention, lines 204-214)

\* A run whose clock steps lie one minute inside and one minute outside the
\* retention of three hours.
RetentionTicks == {179, 181}
RetentionInputs == [LeanInputs EXCEPT !.ticks = RetentionTicks]
NextRetention == NextWith(RetentionInputs)
SpecRetention == Init /\ [][NextRetention]_vars

\* C13: after process_mention appended a mention at time T, the entity's list
\* is the stored mentions that are at most 180 minutes older than T, in their
\* order, followed by the new mention: a mention 181 minutes old is dropped
\* and a mention 179 minutes old is kept.
C13_RetentionWindow ==
    [][\A p \in Tasks :
          (pc[p] = "idle" /\ pc'[p] = "safety")
          => LET ca == ev'[p].ca
                 old == mentions_by_ca[ca]
                 new == mentions_by_ca'[ca]
                 Within(i) == now - old[i].ts <= 180 * 60
             IN  \E k \in 0..Len(old) :
                    /\ \A i \in 1..k : ~Within(i)
                    /\ \A i \in (k + 1)..Len(old) : Within(i)
                    /\ new = SubSeq(old, k + 1, Len(old))
                                \o <<[ts |-> now, channel |-> ev'[p].ch]>>]_vars

\* A mention was appended 179 minutes after the entity's first mention, and
\* the first mention is still in the list.
C13_Witness ==
    \E p \in Tasks :
        /\ pc[p] = "safety"
        /\ ev[p].now = 179 * 60
        /\ Len(mentions_by_ca[ev[p].ca]) >= 2
        /\ mentions_by_ca[ev[p].ca][1].ts = 0

----
\* Properties of the liquidity peak (process_mention, lines 243-247 and 280-283)

\* A run in which a pair created 45 minutes before time 0 is fetched every 90
\* seconds with liquidity 10000, 50000, 20000 or 60000 and market data that
\* otherwise meet the T2 and the T3 conditions.
PeakMaxSeconds == 180
PeakMaxMentions == 3
PeakElapseSteps == {90}
DexLiquidity(liq) == Dex(liq, 3000000, 1000000, 600, 16, 1, 1, 45)
PeakInputs ==
    [LeanInputs EXCEPT
        !.dex = { DexLiquidity(10000), DexLiquidity(50000), DexLiquidity(20000),
                  DexLiquidity(60000) },
        !.probes = {ProbeRevoked},
        !.max_mentions = PeakMaxMentions]
NextPeak ==
    \/ NextWith(PeakInputs)
    \/ \E s \in PeakElapseSteps : Elapse(s, PeakMaxSeconds)
SpecPeak == Init /\ [][NextPeak]_vars

\* C14: the stored peak liquidity never decreases; an evaluation that sees a
\* positive liquidity leaves the larger of that liquidity and the stored peak,
\* and no other step changes the peak; and T2 is set exactly when, among the
\* other T2 conditions, (peak - current) / peak * 100 is at most
\* T2_LIQ_DRAWDOWN_MAX_PCT for the stored peak.
C14_PeakHighWaterMark ==
    [][/\ \A ca \in CAs : peak_liquidity_usd'[ca] >= peak_liquidity_usd[ca]
       /\ \A p \in Tasks :
             LET e == ev[p]
                 liq == e.dex.liq
                 peak == peak_liquidity_usd[e.ca]
             IN  /\ (pc[p] = "classify" /\ pc'[p] # "classify")
                    => peak_liquidity_usd'[e.ca] =
                          (IF liq > 0 /\ liq > peak THEN liq ELSE peak)
                 /\ (pc[p] = "await_holders2" /\ pc'[p] # "await_holders2")
                    => /\ ev'[p].peak = peak
                       /\ peak > 0
                       /\ (ev'[p].cls = "T2"
                            <=> /\ ev'[p].holders_ok
                                /\ liq >= T2_LIQ_MIN_USD
                                /\ (peak - liq) * 100 <= T2_LIQ_DRAWDOWN_MAX_PCT * peak
                                /\ e.dex.txns >= T2_TXNS_H1_MIN
                                /\ e.dex.bs10 >= T2_BUY_SELL_RATIO_MIN_X10
                                /\ vip_holders_by_ca[e.ca] # {})
       /\ (\A p \in Tasks : pc[p] # "classify")
             => peak_liquidity_usd' = peak_liquidity_usd]_vars

\* The third observation: the evaluation that saw liquidity 20000 read the
\* peak 50000, a drawdown of 60 percent, and was not classified T2.
C14_Witness ==
    \E p \in Tasks :
        /\ pc[p] = "t3"
        /\ ev[p].now = 180
        /\ ev[p].dex.liq = 20000
        /\ ev[p].peak = 50000
        /\ peak_liquidity_usd[ev[p].ca] = 50000
        /\ (ev[p].peak - ev[p].dex.liq) * 100 = 60 * ev[p].peak
        /\ ev[p].cls = "none"

----
\* holders_and_whales_ok as a function of the answers of its two RPCs

\* The answers tried: each call raises or not; the supply is 0 or 1000; the
\* largest accounts are one account of amount m, n accounts of amount 1 and z
\* accounts of amount 0 (or None).
HolderValues(m, n, z) == <<m>> \o [i \in 1..n |-> 1] \o [i \in 1..z |-> 0]
HolderAnswers ==
    { [supply_exc |-> se, supply |-> su, largest_exc |-> le,
       values |-> HolderValues(m, n, z)] :
         se \in BOOLEAN, su \in {0, 1000}, le \in BOOLEAN,
         m \in {0, 100, 400, 401}, n \in {73, 74, 75}, z \in {0, 1} }

InitHolders ==
    /\ InitEvaluator(T3_AGE_MIN_DEFAULT, {0})
    /\ InitStatsRecorder(STATS_ROI_HORIZONS_MIN, 0)
    /\ persist_call = NoPersistCall
    /\ shutdown = NoShutdown
    /\ state_file = NoFiles
    /\ on_message = NoMessage
    /\ snapshots_loop = NoCycle
    /\ retry_call = NoRetryCall
    /\ vip_call = NoVipCall
    /\ coin_counts = NoCounts
    /\ coin_tier_state = NoTierState
    /\ last_t1_sent_utc = NoT1Sent
    /\ tier_alerts = NoTierAlerts
    /\ tier_task = NoTierTasks
    /\ load_call = NoLoadCall
    /\ saver_loop = NoSaver
    /\ perf_counter = StartClock
    /\ last_rpc_ts = NoRpcTs
    /\ rpc_task = NoRpcTasks
    /\ rpc_dispatches = NoDispatches
    /\ stop_event = NoStop
    /\ bot_stop_event = NoStop
    /\ bg_loops = NewLoops
    /\ main_pc = MainRunning
    /\ tracked_others = NoOthers
    /\ holders_call \in { [in |-> a, out |-> "none"] : a \in HolderAnswers }

\* Evaluator.holders_and_whales_ok, called with the answers holders_call.in
HoldersCall ==
    /\ holders_call.out = "none"
    /\ holders_call' =
          [holders_call EXCEPT
             !.out = IF holders_and_whales_ok(HolderSummary(holders_call.in))
                     THEN "true" ELSE "false"]
    /\ UNCHANGED <<now, mentions_by_ca, last_rank_sent, safety_cache, dex_cache,
                   vip_holders_by_ca, t1_price_usd, first_seen_ts, peak_liquidity_usd,
                   others_ranked, others_priced, watcher_keys, T3_AGE_MIN_MINUTES,
                   pc, ev, running, alerts, signals, persist_call, shutdown, state_file, on_message, snapshots_loop, retry_call, vip_call, coin_counts, coin_tier_state, last_t1_sent_utc, tier_alerts, tier_task, load_call, saver_loop, perf_counter, last_rpc_ts, rpc_task, rpc_dispatches, stop_event, bot_stop_event, bg_loops, main_pc, tracked_others>>
    /\ Frame_stats

NextHolders == HoldersCall
SpecHolders == InitHolders /\ [][NextHolders]_vars

\* C15: holders_and_whales_ok returns true if and only if neither RPC raised,
\* the supply is positive, at least HOLDERS_THRESHOLD of the returned accounts
\* have a positive balance, and no account holds more than LARGEST_WALLET_MAX
\* percent of the supply.
C15_HoldersAndWhales ==
    holders_call.out # "none"
    => LET a == holders_call.in
           holders == { i \in 1..Len(a.values) : a.values[i] > 0 }
       IN  (holders_call.out = "true")
             <=> /\ ~a.supply_exc /\ ~a.largest_exc
                 /\ a.supply > 0
                 /\ Cardinality(holders) >= HOLDERS_THRESHOLD
                 /\ \A i \in 1..Len(a.values) :
                       a.values[i] * 100 <= LARGEST_WALLET_MAX * a.supply

\* The check passed on exactly 75 positive accounts, the largest at 40 percent.
C15_Witness ==
    /\ holders_call.out = "true"
    /\ Cardinality({ i \in 1..Len(holders_call.in.values) :
                       holders_call.in.values[i] > 0 }) = 75
    /\ holders_call.in.values[1] * 100 = 40 * holders_call.in.supply

----
\* StatsRecorder (bot/stats.py): signals, snapshots and ROI outcomes
\*
\* Prices are in hundredths of a USD (1.0 is 100); a price of 0 in a signal is
\* a price that is None or not positive, and a price_usd of -1 in a snapshot
\* row is NULL.  A timestamp is kept as the wall-clock second it denotes; the
\* text the code stores and compares is computed from it by IsoFormat and
\* SqliteDatetime.  roi_pct is kept as the fraction num/den.

SecondsPerDay == 24 * 60 * 60

\* datetime.now(timezone.utc)
UtcNow == epoch_utc + now

\* datetime.isoformat(): "YYYY-MM-DDThh:mm:ss+00:00", as <<date, separator,
\* time of day>>; the separator is the letter T (code 84).
IsoFormat(t) == <<t \div SecondsPerDay, 84, t % SecondsPerDay>>

\* SQLite datetime(text, '+N minutes'): "YYYY-MM-DD hh:mm:ss" of the instant
\* N minutes later; the separator is a space (code 32).
SqliteDatetime(t, minutes) ==
    <<(t + minutes * 60) \div SecondsPerDay, 32, (t + minutes * 60) % SecondsPerDay>>

\* a >= b and a <= b of two TEXT values in SQLite: byte by byte, left to right
TextGE(a, b) ==
    \/ a[1] > b[1]
    \/ a[1] = b[1] /\ a[2] > b[2]
    \/ a[1] = b[1] /\ a[2] = b[2] /\ a[3] >= b[3]
TextLE(a, b) == TextGE(b, a)

\* ORDER BY ts_utc ASC LIMIT 1 and ORDER BY ts_utc DESC LIMIT 1 over rows of
\* one format (rows must not be empty)
FirstByTs(rows) ==
    CHOOSE r \in rows : \A q \in rows : TextLE(IsoFormat(r.ts_utc), IsoFormat(q.ts_utc))
LastByTs(rows) ==
    CHOOSE r \in rows : \A q \in rows : TextGE(IsoFormat(r.ts_utc), IsoFormat(q.ts_utc))

\* INSERT OR REPLACE on UNIQUE(ts_utc, ca)
InsertOrReplace(table, row) ==
    { r \in table : ~(r.ts_utc = row.ts_utc /\ r.ca = row.ca) } \cup {row}

\* INSERT OR IGNORE into a table with UNIQUE(ts_utc, ca) ON CONFLICT IGNORE
InsertOrIgnore(table, row) ==
    IF \E r \in table : r.ts_utc = row.ts_utc /\ r.ca = row.ca
    THEN table
    ELSE table \cup {row}

\* (end_price - start_price) / end_price * 100.0
RoiPctOfEnd(start_price, end_price) ==
    [num |-> (end_price - start_price) * 100, den |-> end_price]

\* (end_price - start_price) / start_price * 100.0
RoiPct(start_price, end_price) ==
    [num |-> (end_price - start_price) * 100, den |-> start_price]

\* Every variable of the evaluator and of the handlers
Frame_evaluator ==
    UNCHANGED <<mentions_by_ca, last_rank_sent, safety_cache, dex_cache,
                vip_holders_by_ca, t1_price_usd, first_seen_ts, peak_liquidity_usd,
                others_ranked, others_priced, watcher_keys, T3_AGE_MIN_MINUTES,
                pc, ev, running, alerts, signals, holders_call, persist_call,
                shutdown, state_file, on_message, snapshots_loop, retry_call, vip_call, coin_counts, coin_tier_state, last_t1_sent_utc, tier_alerts, tier_task, load_call, saver_loop, perf_counter, last_rpc_ts, rpc_task, rpc_dispatches, stop_event, bot_stop_event, bg_loops, main_pc, tracked_others>>

\* Bounds of the StatsRecorder specification: rows per table, the prices
\* tried, the clock.
MaxSignalRows == 2
MaxSnapshotRows == 2
MaxOutcomeRows == 2
MaxStatsSeconds == 900
StatsElapseSteps == {300}
SignalPrices == {0, 100, 200}
SnapshotPrices == {-1, 0, 150}
StatsEpochs == {0, SecondsPerDay - 900}
StatsHorizons == {<<15>>, <<5, 15>>}

\* StatsRecorder.record_signal up to its first await: the start price is
\* written, the INSERT is still to come.  The caller stamped the event with
\* the current time.
record_signal(ca, price_usd) ==
    /\ signal_call = NoRow
    /\ Cardinality(signals_table) < MaxSignalRows
    /\ start_price_by_ca' =
          IF price_usd > 0
          THEN [start_price_by_ca EXCEPT ![ca] = price_usd]
          ELSE start_price_by_ca
    /\ signal_call' = [ts_utc |-> UtcNow, ca |-> ca, price_usd |-> price_usd]
    /\ UNCHANGED <<now, epoch_utc, roi_horizons_min, signals_table,
                   snapshots_table, outcomes_table, snapshot_call, oc>>
    /\ Frame_evaluator

\* StatsRecorder._insert_signal_db, the end of record_signal
insert_signal_db ==
    /\ signal_call # NoRow
    /\ signals_table' = signals_table \cup {signal_call}
    /\ signal_call' = NoRow
    /\ UNCHANGED <<now, epoch_utc, roi_horizons_min, start_price_by_ca,
                   snapshots_table, outcomes_table, snapshot_call, oc>>
    /\ Frame_evaluator

\* StatsRecorder.record_snapshot(ca, metrics) with ts_utc left to the clock
record_snapshot(ca, price_usd) ==
    LET row == [ts_utc |-> UtcNow, ca |-> ca, price_usd |-> price_usd]
    IN  /\ \/ Cardinality(snapshots_table) < MaxSnapshotRows
           \/ \E r \in snapshots_table : r.ts_utc = row.ts_utc /\ r.ca = row.ca
        /\ snapshots_table' = InsertOrIgnore(snapshots_table, row)
        /\ snapshot_call' = row
        /\ UNCHANGED <<now, epoch_utc, roi_horizons_min, start_price_by_ca,
                       signals_table, outcomes_table, signal_call, oc>>
        /\ Frame_evaluator

\* The rows the queries of maybe_record_outcomes_from_snapshots read
SignalsOf(ca) == { r \in signals_table : r.ca = ca }
SnapshotsUpTo(ca, base_ts) ==
    { r \in snapshots_table :
        r.ca = ca /\ TextLE(IsoFormat(r.ts_utc), IsoFormat(base_ts)) }
OutcomeExists(ca, minutes, base_ts) ==
    \E k \in 1..Len(outcomes_table) :
        /\ outcomes_table[k].ca = ca
        /\ outcomes_table[k].horizon_min = minutes
        /\ TextGE(IsoFormat(outcomes_table[k].ts_utc), IsoFormat(base_ts))
SnapshotsAfterHorizon(ca, base_ts, minutes) ==
    { r \in snapshots_table :
        /\ r.ca = ca
        /\ TextGE(IsoFormat(r.ts_utc), SqliteDatetime(base_ts, minutes))
        /\ r.price_usd # -1 }

\* maybe_record_outcomes_from_snapshots up to its loop: the base timestamp and
\* the start price.  The call returns at once (no step) without a signal, or
\* without a start price and without a positive price to fall back on.
OutcomesBegin(ca) ==
    /\ oc.pc = "idle"
    /\ Len(outcomes_table) < MaxOutcomeRows
    /\ SignalsOf(ca) # {}
    /\ LET base_ts == FirstByTs(SignalsOf(ca)).ts_utc
           fallback == SnapshotsUpTo(ca, base_ts)
           start_price ==
              IF start_price_by_ca[ca] # 0 THEN start_price_by_ca[ca]
              ELSE IF fallback = {} THEN 0
              ELSE LastByTs(fallback).price_usd
       IN  /\ start_price > 0
           /\ oc' = [pc |-> "loop", ca |-> ca, base_ts |-> base_ts,
                     start_price |-> start_price, i |-> 1]
    /\ UNCHANGED <<now, epoch_utc, roi_horizons_min, start_price_by_ca,
                   signals_table, snapshots_table, outcomes_table,
                   signal_call, snapshot_call>>
    /\ Frame_evaluator

\* One iteration of the loop over roi_horizons_min, record_outcome included
OutcomesHorizon ==
    /\ oc.pc = "loop"
    /\ LET minutes == roi_horizons_min[oc.i]
           found == SnapshotsAfterHorizon(oc.ca, oc.base_ts, minutes)
           snap == FirstByTs(found)
       IN  outcomes_table' =
              IF OutcomeExists(oc.ca, minutes, oc.base_ts) THEN outcomes_table
              ELSE IF found = {} THEN outcomes_table
              ELSE IF snap.price_usd <= 0 THEN outcomes_table
              ELSE Append(outcomes_table,
                          [ts_utc |-> snap.ts_utc, ca |-> oc.ca,
                           horizon_min |-> minutes,
                           roi_pct |-> RoiPct(oc.start_price, snap.price_usd),
                           price_start_usd |-> oc.start_price,
                           price_end_usd |-> snap.price_usd])
    /\ oc' = IF oc.i < Len(roi_horizons_min)
             THEN [oc EXCEPT !.i = oc.i + 1]
             ELSE NoOutcomesCall
    /\ UNCHANGED <<now, epoch_utc, roi_horizons_min, start_price_by_ca,
                   signals_table, snapshots_table, signal_call, snapshot_call>>
    /\ Frame_evaluator

InitStats ==
    /\ InitEvaluator(T3_AGE_MIN_DEFAULT, {0})
    /\ holders_call = NoHoldersCall
    /\ persist_call = NoPersistCall
    /\ shutdown = NoShutdown
    /\ state_file = NoFiles
    /\ on_message = NoMessage
    /\ snapshots_loop = NoCycle
    /\ retry_call = NoRetryCall
    /\ vip_call = NoVipCall
    /\ coin_counts = NoCounts
    /\ coin_tier_state = NoTierState
    /\ last_t1_sent_utc = NoT1Sent
    /\ tier_alerts = NoTierAlerts
    /\ tier_task = NoTierTasks
    /\ load_call = NoLoadCall
    /\ saver_loop = NoSaver
    /\ perf_counter = StartClock
    /\ last_rpc_ts = NoRpcTs
    /\ rpc_task = NoRpcTasks
    /\ rpc_dispatches = NoDispatches
    /\ stop_event = NoStop
    /\ bot_stop_event = NoStop
    /\ bg_loops = NewLoops
    /\ main_pc = MainRunning
    /\ tracked_others = NoOthers
    /\ \E h \in StatsHorizons, e \in StatsEpochs : InitStatsRecorder(h, e)

NextStats ==
    \/ \E ca \in CAs, p \in SignalPrices : record_signal(ca, p)
    \/ insert_signal_db
    \/ \E ca \in CAs, p \in SnapshotPrices : record_snapshot(ca, p)
    \/ \E ca \in CAs : OutcomesBegin(ca)
    \/ OutcomesHorizon
    \/ \E s \in StatsElapseSteps : Elapse(s, MaxStatsSeconds)
SpecStats == InitStats /\ [][NextStats]_vars

----
\* Properties of the ROI outcomes (maybe_record_outcomes_from_snapshots)

\* C16: the outcomes table holds at most one row for every pair of an entity
\* and a horizon, whatever calls of maybe_record_outcomes_from_snapshots,
\* record_signal and record_snapshot came before.
C16_OneOutcomePerHorizon ==
    \A j, k \in 1..Len(outcomes_table) :
        /\ outcomes_table[j].ca = outcomes_table[k].ca
        /\ outcomes_table[j].horizon_min = outcomes_table[k].horizon_min
        => j = k

\* C17: an outcome row for horizon H is derived from the earliest stored
\* snapshot of the entity that is at least H minutes later than the base
\* signal and has a positive price: no row is written while no such snapshot
\* is stored, and the row carries that snapshot's timestamp and price.
C17_EarliestSnapshotAfterHorizon ==
    [][ (oc.pc = "loop" /\ Len(outcomes_table') = Len(outcomes_table) + 1)
        => LET minutes == roi_horizons_min[oc.i]
               due == { r \in snapshots_table :
                          /\ r.ca = oc.ca
                          /\ r.ts_utc >= oc.base_ts + minutes * 60
                          /\ r.price_usd > 0 }
               o == outcomes_table'[Len(outcomes_table')]
           IN  /\ due # {}
               /\ \E r \in due :
                     /\ \A q \in due : r.ts_utc <= q.ts_utc
                     /\ o.ts_utc = r.ts_utc
                     /\ o.price_end_usd = r.price_usd
                     /\ o.horizon_min = minutes ]_vars

\* C18: the start price of an entity is written once: a record_signal call
\* for an entity that has a start price leaves that price as it is, whatever
\* positive price the new signal carries.
C18_StartPriceFirstWriteWins ==
    [][ \A ca \in CAs :
          start_price_by_ca[ca] > 0
          => start_price_by_ca'[ca] = start_price_by_ca[ca] ]_vars

\* The scenario of C19: horizons {15}, one signal of price 1.0 in the table,
\* one snapshot of price 1.5 taken fifteen minutes after it, no other call of
\* record_signal under way.
RoiScenario ==
    /\ roi_horizons_min = <<15>>
    /\ signal_call = NoRow
    /\ \E s \in signals_table :
          /\ signals_table = {s}
          /\ s.ca = "ca1" /\ s.price_usd = 100
          /\ snapshots_table =
                {[ts_utc |-> s.ts_utc + 15 * 60, ca |-> "ca1", price_usd |-> 150]}

\* C19: every outcome row written has roi_pct = (end_price - start_price) /
\* start_price * 100, with start_price the start price the call read and
\* end_price the price of a stored snapshot; and in the scenario (signal of
\* price 1.0, one snapshot of price 1.5 fifteen minutes later, horizons {15})
\* a call ends with exactly one outcome row, of roi_pct 50.
C19_RoiPct ==
    [][ /\ (oc.pc = "loop" /\ Len(outcomes_table') = Len(outcomes_table) + 1)
           => LET o == outcomes_table'[Len(outcomes_table')]
              IN  /\ o.price_start_usd = oc.start_price
                  /\ \E r \in snapshots_table :
                        r.ts_utc = o.ts_utc /\ r.price_usd = o.price_end_usd
                  /\ o.roi_pct.den > 0
                  /\ o.roi_pct.num * o.price_start_usd
                        = (o.price_end_usd - o.price_start_usd) * 100 * o.roi_pct.den
        /\ (oc.pc = "loop" /\ oc'.pc = "idle" /\ RoiScenario)
           => /\ Len(outcomes_table') = 1
              /\ outcomes_table'[1].horizon_min = 15
              /\ outcomes_table'[1].roi_pct.num = 50 * outcomes_table'[1].roi_pct.den
      ]_vars

\* The scenario after a call of maybe_record_outcomes_from_snapshots: one
\* row, roi_pct 50, start price 1.0, end price 1.5.
C19_Witness ==
    /\ RoiScenario
    /\ oc.pc = "idle"
    /\ Len(outcomes_table) = 1
    /\ outcomes_table[1].price_start_usd = 100
    /\ outcomes_table[1].price_end_usd = 150
    /\ outcomes_table[1].roi_pct.num = 50 * outcomes_table[1].roi_pct.den

\* C20: a record_snapshot call for an entity and a timestamp that are stored
\* already adds no row and leaves the stored row as it is; the snapshots
\* table holds at most one row for every pair of an entity and a timestamp.
C20_SnapshotDedup ==
    [][ /\ ( /\ snapshot_call' # snapshot_call
             /\ \E r \in snapshots_table :
                   r.ts_utc = snapshot_call'.ts_utc /\ r.ca = snapshot_call'.ca )
           => snapshots_table' = snapshots_table
        /\ \A r, q \in snapshots_table' :
              (r.ts_utc = q.ts_utc /\ r.ca = q.ca) => r = q ]_vars

\* The latest record_snapshot call carried another price than the row stored
\* for its entity and timestamp.
C20_Witness ==
    /\ snapshot_call # NoRow
    /\ \E r \in snapshots_table :
          /\ r.ts_utc = snapshot_call.ts_utc
          /\ r.ca = snapshot_call.ca
          /\ r.price_usd # snapshot_call.price_usd

----
\* Properties of the recording of signals (process_mention, lines 360-385, and
\* Bot._send_evaluator_message)

----
\* Evaluator.to_persisted_state and Evaluator.load_persisted_state
\*
\* A dict is a function whose domain is its keys.  A datetime is
\* [sec, usec]; the text of datetime.isoformat() is <<sec>> when the
\* microseconds are zero ("...T00:00:00+00:00") and <<sec, usec>> otherwise
\* ("...T00:00:00.500000+00:00").

\* The keys and the values tried
PersistKeys == {"ca1", "ca2"}
PersistRanks == {"T1", "T2", "T3"}
PersistPrices == {100, 250}
PersistTimes == {[sec |-> 0, usec |-> 0], [sec |-> 60, usec |-> 500000]}
PersistPeaks == {0, 20000}
Dicts(values) == UNION { [keys -> values] : keys \in SUBSET PersistKeys }

\* dict.update
DictUpdate(d, u) ==
    [k \in DOMAIN d \cup DOMAIN u |-> IF k \in DOMAIN u THEN u[k] ELSE d[k]]

\* datetime.isoformat()
isoformat(dt) == IF dt.usec = 0 THEN <<dt.sec>> ELSE <<dt.sec, dt.usec>>

\* A parser that reads whole seconds only
fromisoformat_seconds(text) == [sec |-> text[1], usec |-> 0]

\* datetime.fromisoformat()
fromisoformat(text) ==
    IF Len(text) = 2
    THEN [sec |-> text[1], usec |-> text[2]]
    ELSE [sec |-> text[1], usec |-> 0]

\* Evaluator.to_persisted_state
to_persisted_state(st) ==
    [last_rank_sent |-> st.last_rank_sent,
     t1_price_usd |-> st.t1_price_usd,
     first_seen_ts |-> [k \in DOMAIN st.first_seen_ts |-> isoformat(st.first_seen_ts[k])],
     peak_liquidity_usd |-> st.peak_liquidity_usd]

\* Evaluator.load_persisted_state of a dict of four dicts into the state st
load_persisted_state(st, data) ==
    [last_rank_sent |-> DictUpdate(st.last_rank_sent, data.last_rank_sent),
     t1_price_usd |-> DictUpdate(st.t1_price_usd, data.t1_price_usd),
     first_seen_ts |->
        DictUpdate(st.first_seen_ts,
                   [k \in DOMAIN data.first_seen_ts |-> fromisoformat(data.first_seen_ts[k])]),
     peak_liquidity_usd |-> DictUpdate(st.peak_liquidity_usd, data.peak_liquidity_usd)]

PersistStates ==
    [last_rank_sent : Dicts(PersistRanks), t1_price_usd : Dicts(PersistPrices),
     first_seen_ts : Dicts(PersistTimes), peak_liquidity_usd : Dicts(PersistPeaks)]

InitPersist ==
    /\ InitEvaluator(T3_AGE_MIN_DEFAULT, {0})
    /\ InitStatsRecorder(STATS_ROI_HORIZONS_MIN, 0)
    /\ holders_call = NoHoldersCall
    /\ shutdown = NoShutdown
    /\ state_file = NoFiles
    /\ on_message = NoMessage
    /\ snapshots_loop = NoCycle
    /\ retry_call = NoRetryCall
    /\ vip_call = NoVipCall
    /\ coin_counts = NoCounts
    /\ coin_tier_state = NoTierState
    /\ last_t1_sent_utc = NoT1Sent
    /\ tier_alerts = NoTierAlerts
    /\ tier_task = NoTierTasks
    /\ load_call = NoLoadCall
    /\ saver_loop = NoSaver
    /\ perf_counter = StartClock
    /\ last_rpc_ts = NoRpcTs
    /\ rpc_task = NoRpcTasks
    /\ rpc_dispatches = NoDispatches
    /\ stop_event = NoStop
    /\ bot_stop_event = NoStop
    /\ bg_loops = NewLoops
    /\ main_pc = MainRunning
    /\ tracked_others = NoOthers
    /\ persist_call \in { [in |-> st, out |-> FreshState, done |-> FALSE] : st \in PersistStates }

\* The state persist_call.in is saved and loaded into a fresh evaluator
PersistRoundTrip ==
    /\ ~persist_call.done
    /\ persist_call' =
          [persist_call EXCEPT
             !.out = load_persisted_state(FreshState, to_persisted_state(persist_call.in)),
             !.done = TRUE]
    /\ UNCHANGED <<now, mentions_by_ca, last_rank_sent, safety_cache, dex_cache,
                   vip_holders_by_ca, t1_price_usd, first_seen_ts, peak_liquidity_usd,
                   others_ranked, others_priced, watcher_keys, T3_AGE_MIN_MINUTES,
                   pc, ev, running, alerts, signals, holders_call, shutdown, state_file, on_message, snapshots_loop, retry_call, vip_call, coin_counts, coin_tier_state, last_t1_sent_utc, tier_alerts, tier_task, load_call, saver_loop, perf_counter, last_rpc_ts, rpc_task, rpc_dispatches, stop_event, bot_stop_event, bg_loops, main_pc, tracked_others>>
    /\ Frame_stats

NextPersist == PersistRoundTrip
SpecPersist == InitPersist /\ [][NextPersist]_vars

\* C22: loading the output of to_persisted_state into a fresh evaluator gives
\* back, for every entity, the same last sent tier, T1 reference price, first
\* seen timestamp and peak liquidity, and no entity more.
C22_PersistRoundTrip ==
    persist_call.done
    => /\ persist_call.out.last_rank_sent = persist_call.in.last_rank_sent
       /\ persist_call.out.t1_price_usd = persist_call.in.t1_price_usd
       /\ persist_call.out.first_seen_ts = persist_call.in.first_seen_ts
       /\ persist_call.out.peak_liquidity_usd = persist_call.in.peak_liquidity_usd

\* A state was saved and loaded in which ca1 has all four fields, with a first
\* seen timestamp that has microseconds, and ca2 has none.
C22_Witness ==
    /\ persist_call.done
    /\ DOMAIN persist_call.out.last_rank_sent = {"ca1"}
    /\ DOMAIN persist_call.out.t1_price_usd = {"ca1"}
    /\ DOMAIN persist_call.out.first_seen_ts = {"ca1"}
    /\ DOMAIN persist_call.out.peak_liquidity_usd = {"ca1"}
    /\ persist_call.out.last_rank_sent["ca1"] = "T2"
    /\ persist_call.out.first_seen_ts["ca1"].usec = 500000

----
\* Graceful shutdown and restart (Bot.stop, Bot.start)

\* The process is stopped while no handler runs and is started again.  Bot.stop
\* saves the four persisted dicts, Bot.start loads them into a new Evaluator
\* (to_persisted_state and load_persisted_state give them back unchanged);
\* mentions, caches and VIP sets are not saved and start empty.
MaxRestarts == 1
Restart ==
    /\ running = NoTask
    /\ \A p \in Tasks : pc[p] = "idle"
    /\ shutdown.count < MaxRestarts
    /\ shutdown' = [count |-> shutdown.count + 1, last_rank_sent |-> last_rank_sent]
    /\ mentions_by_ca' = [ca \in CAs |-> <<>>]
    /\ safety_cache' = [ca \in CAs |-> NoSafety]
    /\ dex_cache' = [ca \in CAs |-> NoDex]
    /\ vip_holders_by_ca' = [ca \in CAs |-> {}]
    /\ watcher_keys' = [live |-> TRUE, keys |-> {}]
    /\ UNCHANGED <<now, last_rank_sent, t1_price_usd, first_seen_ts,
                   peak_liquidity_usd, others_ranked, others_priced,
                   T3_AGE_MIN_MINUTES, pc, ev, running, alerts, signals,
                   holders_call, persist_call, state_file, on_message, snapshots_loop, retry_call, vip_call, coin_counts, coin_tier_state, last_t1_sent_utc, tier_alerts, tier_task, load_call, saver_loop, perf_counter, last_rpc_ts, rpc_task, rpc_dispatches, stop_event, bot_stop_event, bg_loops, main_pc, tracked_others>>
    /\ Frame_stats

\* Entities outside CAs tracked at the time of a mention: none, 24 or 25.
RestartOthers == {0, 24, 25}
RestartInputs == [LeanInputs EXCEPT !.others = RestartOthers]
NextRestart ==
    \/ NextWith(RestartInputs)
    \/ Restart
SpecRestart == InitLoaded /\ [][NextRestart]_vars

\* C23: after a shutdown that saved the state and a restart that loaded it, no
\* alert is sent for an entity at a tier whose rank is at most the rank of the
\* tier stored for the entity at the shutdown.
C23_NoRealertAfterRestart ==
    [][ \A ca \in CAs :
          (shutdown.count > 0 /\ Len(alerts'[ca]) = Len(alerts[ca]) + 1)
          => order(alerts'[ca][Len(alerts'[ca])]) > order(shutdown.last_rank_sent[ca])
      ]_vars

----
\* write_json_atomic and read_json (bot/utils.py)
\*
\* A file is [exists, text]; its text is a sequence of tokens.  The JSON text
\* of the payload d is the three tokens "{" (123), d, "}" (125), written one
\* token at a time.  state_file.files holds the file at the target path and
\* the temporary file; read is the last result of read_json: -3 before the
\* first call, -2 for None (no file), -1 for a JSONDecodeError, else the
\* payload.

MaxWrites == 3
StatePayloads == {1, 2}

\* json.dump
JsonText(d) == <<123, d, 125>>

\* json.load
JsonLoad(text) ==
    IF Len(text) = 3 /\ text[1] = 123 /\ text[3] = 125 THEN text[2] ELSE -1

\* The path the data is written to when it is written in place
target_path == "target"

\* The path tempfile.mkstemp returns: a new file in the target's directory
mkstemp_path == "tmp"

\* Every variable but state_file
Frame_program ==
    /\ UNCHANGED <<now, mentions_by_ca, last_rank_sent, safety_cache, dex_cache,
                   vip_holders_by_ca, t1_price_usd, first_seen_ts, peak_liquidity_usd,
                   others_ranked, others_priced, watcher_keys, T3_AGE_MIN_MINUTES,
                   pc, ev, running, alerts, signals, holders_call, persist_call,
                   shutdown, on_message, snapshots_loop, retry_call, vip_call, coin_counts, coin_tier_state, last_t1_sent_utc, tier_alerts, tier_task, load_call, saver_loop, perf_counter, last_rpc_ts, rpc_task, rpc_dispatches, stop_event, bot_stop_event, bg_loops, main_pc, tracked_others>>
    /\ Frame_stats

\* _write, lines 27-30: the temporary file is created, empty
WriteBegin(d) ==
    /\ state_file.pc = "idle"
    /\ state_file.writes < MaxWrites
    /\ state_file' =
          [state_file EXCEPT
             !.files[mkstemp_path] = [exists |-> TRUE, text |-> <<>>],
             !.pc = "dumping", !.data = d, !.prev = state_file.files["target"]]
    /\ Frame_program

\* _write, line 32: json.dump writes the next token
WriteToken ==
    /\ state_file.pc = "dumping"
    /\ Len(state_file.files[mkstemp_path].text) < Len(JsonText(state_file.data))
    /\ state_file' =
          [state_file EXCEPT
             !.files[mkstemp_path].text =
                Append(@, JsonText(state_file.data)[Len(@) + 1])]
    /\ Frame_program

\* _write, line 31: the with block closes the file after the last token
WriteClose ==
    /\ state_file.pc = "dumping"
    /\ state_file.files[mkstemp_path].text = JsonText(state_file.data)
    /\ state_file' = [state_file EXCEPT !.pc = "closed"]
    /\ Frame_program

\* _write, lines 33-39: os.replace moves the temporary file over the target
\* in one step; the finally clause finds no temporary file
WriteReplace ==
    /\ state_file.pc = "closed"
    /\ LET moved == [state_file.files EXCEPT !["target"] = state_file.files[mkstemp_path]]
       IN  state_file' =
              [state_file EXCEPT
                 !.files = IF mkstemp_path = "target" THEN moved
                           ELSE [moved EXCEPT ![mkstemp_path] = NoFile],
                 !.pc = "idle", !.last = "done", !.writes = @ + 1]
    /\ Frame_program

\* _write, lines 34-39: json.dump or os.replace raises; the finally clause
\* removes the temporary file
WriteError ==
    /\ state_file.pc \in {"dumping", "closed"}
    /\ state_file' =
          [state_file EXCEPT
             !.files[mkstemp_path] = NoFile,
             !.pc = "idle", !.last = "error", !.writes = @ + 1]
    /\ Frame_program

\* The process dies during _write, before os.replace: its files stay as they are
WriteCrash ==
    /\ state_file.pc \in {"dumping", "closed"}
    /\ state_file' =
          [state_file EXCEPT !.pc = "idle", !.last = "crash", !.writes = @ + 1]
    /\ Frame_program

\* read_json of the target path
ReadJson ==
    /\ state_file' =
          [state_file EXCEPT
             !.read = IF state_file.files["target"].exists
                      THEN JsonLoad(state_file.files["target"].text)
                      ELSE -2,
             !.read_at = state_file.writes]
    /\ Frame_program

NextFiles ==
    \/ \E d \in StatePayloads : WriteBegin(d)
    \/ WriteToken
    \/ WriteClose
    \/ WriteReplace
    \/ WriteError
    \/ WriteCrash
    \/ ReadJson
SpecFiles == Init /\ [][NextFiles]_vars

\* C24: the file at the target path is never partial: while a write is under
\* way, and after a write that raised or died before the rename, it is the
\* file that was there before the write; no read_json sees a text it cannot
\* parse; after a completed write the target holds the data written and
\* read_json returns it.
C24_AtomicWrite ==
    LET target == state_file.files["target"]
    IN  /\ target.exists => JsonLoad(target.text) # -1
        /\ state_file.pc # "idle" => target = state_file.prev
        /\ (state_file.pc = "idle" /\ state_file.last \in {"error", "crash"})
           => target = state_file.prev
        /\ state_file.read # -1
        /\ (state_file.pc = "idle" /\ state_file.last = "done")
           => /\ target.exists
              /\ JsonLoad(target.text) = state_file.data
              /\ state_file.read_at = state_file.writes
                 => state_file.read = state_file.data

\* A write of payload 2 died after its first token; the target still holds
\* payload 1 of the write before, and read_json has returned it since.
C24_Witness ==
    /\ state_file.pc = "idle"
    /\ state_file.last = "crash"
    /\ state_file.data = 2
    /\ state_file.files["tmp"].exists
    /\ Len(state_file.files["tmp"].text) = 1
    /\ state_file.files["target"].text = JsonText(1)
    /\ state_file.read = 1
    /\ state_file.read_at = state_file.writes

----
\* Properties of the VIP watcher (bot/vip.py)

\* C25: within a run of the process the set of VIP wallets of every entity only
\* grows: no step, prune_memory included, removes a wallet or a set.
C25_VipSetsOnlyGrow ==
    [][ \A ca \in CAs : vip_holders_by_ca[ca] \subseteq vip_holders_by_ca'[ca] ]_vars

\* prune_memory ran after the watcher had found a wallet for an entity; the
\* entity has no mention left and still has its wallet.
C25_Witness ==
    /\ ~watcher_keys.live
    /\ mentions_by_ca["ca1"] = <<>>
    /\ vip_holders_by_ca["ca1"] = {"vip1"}

\* C26: every entity the evaluator tracks in its mention ledger is among the
\* entities the VIP watcher polls on its next cycle, also an entity that was
\* first mentioned after prune_memory ran.
C26_TrackedArePolled == TrackedKeys(mentions_by_ca) \subseteq WatchedKeys

----
\* Bot._on_message over the entities of one message (telegram.py, lines
\* 319-383), and _snapshots_loop of main.py (lines 48-70).

\* Bounds: messages handled, iterations of the background loop
MaxMessages == 2
MaxIterations == 2

\* The entities a message may carry, and the lists
\* extract_contract_addresses_from_message may return
MessageEntities == {"ca1", "ca2", "ca3"}
Messages ==
    { <<a>> : a \in MessageEntities }
      \cup { m \in { <<a, b>> : a \in MessageEntities, b \in MessageEntities } :
                m[1] # m[2] }

\* How Evaluator.process_mention may end for one entity: it returns, or an
\* exception leaves it (as SendReturn's outcome "raised" does)
MentionOutcomes == {"returned", "raised"}

\* How the body of the snapshots loop may end for one entity: the snapshot is
\* recorded, get_dex_metrics has no metrics, or a call raises
SnapshotOutcomes == {"recorded", "no_metrics", "raised"}

\* Every variable of the evaluator, of the recorder and of the state file
Frame_bot ==
    UNCHANGED <<mentions_by_ca, last_rank_sent, safety_cache, dex_cache,
                vip_holders_by_ca, t1_price_usd, first_seen_ts, peak_liquidity_usd,
                others_ranked, others_priced, watcher_keys, T3_AGE_MIN_MINUTES,
                pc, ev, running, alerts, signals, holders_call, epoch_utc,
                roi_horizons_min, start_price_by_ca, signals_table,
                snapshots_table, outcomes_table, signal_call, snapshot_call, oc,
                persist_call, shutdown, state_file, now>>

\* What neither the handler of a message nor the snapshots loop writes
Frame_isolation ==
    /\ Frame_bot
    /\ UNCHANGED <<retry_call, vip_call, coin_counts, coin_tier_state,
                   last_t1_sent_utc, tier_alerts, tier_task, load_call, saver_loop, perf_counter, last_rpc_ts, rpc_task, rpc_dispatches, stop_event, bot_stop_event, bg_loops, main_pc, tracked_others>>

\* dict insertion: a key coin_counts already has keeps its place
WithKey(keys, ca) ==
    IF \E k \in 1..Len(keys) : keys[k] = ca THEN keys ELSE Append(keys, ca)

\* _on_message, lines 331-337: the entities of the message are extracted and
\* the loop over them begins
OnMessage(msg) ==
    /\ on_message.pc = "idle"
    /\ on_message.handled < MaxMessages
    /\ on_message' = [on_message EXCEPT
                        !.pc = "loop", !.contract_addresses = msg, !.i = 1,
                        !.evaluated = {}, !.last = "none"]
    /\ UNCHANGED snapshots_loop
    /\ Frame_isolation

\* _on_message, lines 337-352 and 381-383: the entity is counted and
\* process_mention is awaited. When it returns the loop goes on to the next
\* entity; an exception that leaves it reaches the except clause that encloses
\* the loop, is counted and logged, and the handler ends.
ProcessEntity(outcome) ==
    /\ on_message.pc = "loop"
    /\ LET ca == on_message.contract_addresses[on_message.i]
           over == on_message.i = Len(on_message.contract_addresses)
       IN  on_message' =
             [on_message EXCEPT
                !.coin_keys = WithKey(@, ca),
                !.evaluated = @ \cup {ca},
                !.i = IF outcome = "returned" /\ ~over THEN @ + 1 ELSE @,
                !.pc = IF outcome = "raised" \/ over THEN "idle" ELSE "loop",
                !.handled = IF outcome = "raised" \/ over THEN @ + 1 ELSE @,
                !.errors_total = IF outcome = "raised" THEN @ + 1 ELSE @,
                !.last = IF outcome = "raised" THEN "error"
                         ELSE IF over THEN "returned" ELSE @]
    /\ UNCHANGED snapshots_loop
    /\ Frame_isolation

\* _snapshots_loop, lines 51-57: after the sleep the keys of coin_counts are
\* listed; with no key the iteration is over at once
SnapshotsWake ==
    /\ snapshots_loop.pc = "sleep"
    /\ snapshots_loop.iterations < MaxIterations
    /\ LET cas == on_message.coin_keys
       IN  snapshots_loop' =
             [snapshots_loop EXCEPT
                !.cas = cas, !.i = 1, !.handled = {},
                !.pc = IF cas = <<>> THEN "sleep" ELSE "cycle",
                !.iterations = IF cas = <<>> THEN @ + 1 ELSE @]
    /\ UNCHANGED on_message
    /\ Frame_isolation

\* _snapshots_loop, lines 57-65: the body for one entity; 'except Exception:
\* continue' takes the loop to the next entity, and after the last one the
\* iteration is over
SnapshotsEntity(outcome) ==
    /\ snapshots_loop.pc = "cycle"
    /\ LET over == snapshots_loop.i = Len(snapshots_loop.cas)
       IN  snapshots_loop' =
             [snapshots_loop EXCEPT
                !.handled = @ \cup {snapshots_loop.cas[snapshots_loop.i]},
                !.i = IF over THEN @ ELSE @ + 1,
                !.pc = IF over THEN "sleep" ELSE "cycle",
                !.iterations = IF over THEN @ + 1 ELSE @]
    /\ UNCHANGED on_message
    /\ Frame_isolation

NextIsolation ==
    \/ \E msg \in Messages : OnMessage(msg)
    \/ \E outcome \in MentionOutcomes : ProcessEntity(outcome)
    \/ SnapshotsWake
    \/ \E outcome \in SnapshotOutcomes : SnapshotsEntity(outcome)

SpecIsolation == Init /\ [][NextIsolation]_vars

\* C27: when the handler of a message has ended, process_mention was invoked
\* for every entity extracted from the message, whatever happened to the
\* entities before it; and when an iteration of the snapshots loop is over,
\* its body ran for every entity the iteration listed.
C27_EntityFailuresIsolated ==
    /\ (on_message.pc = "idle" /\ on_message.last # "none")
         => \A k \in 1..Len(on_message.contract_addresses) :
               on_message.contract_addresses[k] \in on_message.evaluated
    /\ snapshots_loop.pc = "sleep"
         => \A k \in 1..Len(snapshots_loop.cas) :
               snapshots_loop.cas[k] \in snapshots_loop.handled

----
\* with_retries (bot/utils.py, lines 13-23), one action per stretch of code
\* between two suspensions. Durations are in tenths of a second; the k-th
\* invocation of fn returns the value k or raises the error k.

\* Bounds: the retries and the backoff a call may be given (config.py, lines
\* 180-181: HTTP_RETRIES = 3 and RETRY_BACKOFF_SEC = 1.5 by default)
RetryCounts == 0..4
BackoffTenths == {0, 10, 15, 40}
FnOutcomes == {"ok", "err"}

\* The error 'assert last_err is not None' raises
AssertionError == -1

\* Every variable but retry_call
Frame_retry ==
    /\ Frame_bot
    /\ UNCHANGED <<on_message, snapshots_loop, vip_call, coin_counts,
                   coin_tier_state, last_t1_sent_utc, tier_alerts, tier_task, load_call, saver_loop, perf_counter, last_rpc_ts, rpc_task, rpc_dispatches, stop_event, bot_stop_event, bg_loops, main_pc, tracked_others>>

\* A sleep of the same length after every attempt
ConstantBackoff(backoff_sec, attempt) == backoff_sec

\* line 21: the sleep after the failed attempt
Backoff(backoff_sec, attempt) == backoff_sec * (attempt + 1)

InitRetries ==
    /\ InitEvaluator(T3_AGE_MIN_DEFAULT, {0})
    /\ InitStatsRecorder(STATS_ROI_HORIZONS_MIN, 0)
    /\ holders_call = NoHoldersCall
    /\ persist_call = NoPersistCall
    /\ shutdown = NoShutdown
    /\ state_file = NoFiles
    /\ on_message = NoMessage
    /\ snapshots_loop = NoCycle
    /\ vip_call = NoVipCall
    /\ coin_counts = NoCounts
    /\ coin_tier_state = NoTierState
    /\ last_t1_sent_utc = NoT1Sent
    /\ tier_alerts = NoTierAlerts
    /\ tier_task = NoTierTasks
    /\ load_call = NoLoadCall
    /\ saver_loop = NoSaver
    /\ perf_counter = StartClock
    /\ last_rpc_ts = NoRpcTs
    /\ rpc_task = NoRpcTasks
    /\ rpc_dispatches = NoDispatches
    /\ stop_event = NoStop
    /\ bot_stop_event = NoStop
    /\ bg_loops = NewLoops
    /\ main_pc = MainRunning
    /\ tracked_others = NoOthers
    /\ retry_call \in { [NoRetryCall EXCEPT !.retries = r, !.backoff_sec = b] :
                          r \in RetryCounts, b \in BackoffTenths }

\* lines 14-15 and 22-23: the loop begins; with no attempt left it is over, and
\* last_err is raised (the assertion fails when there was no attempt at all)
RetryLoop ==
    /\ retry_call.pc \in {"idle", "next"}
    /\ retry_call' =
          IF retry_call.attempt < retry_call.retries
          THEN [retry_call EXCEPT !.pc = "await_fn"]
          ELSE [retry_call EXCEPT
                  !.pc = "raised",
                  !.raised = IF retry_call.history = <<>> THEN AssertionError
                             ELSE Len(retry_call.history)]
    /\ Frame_retry

\* lines 16-21: fn is awaited; its result is returned, or its error is kept in
\* last_err and the sleep begins
RetryAttempt(outcome) ==
    /\ retry_call.pc = "await_fn"
    /\ retry_call' =
          [retry_call EXCEPT
             !.history = Append(@, outcome),
             !.pc = IF outcome = "ok" THEN "returned" ELSE "await_sleep",
             !.result = IF outcome = "ok" THEN Len(retry_call.history) + 1 ELSE @]
    /\ Frame_retry

\* line 21: the sleep is over, the next attempt follows
RetrySleep ==
    /\ retry_call.pc = "await_sleep"
    /\ retry_call' =
          [retry_call EXCEPT
             !.sleeps = Append(@, Backoff(retry_call.backoff_sec, retry_call.attempt)),
             !.attempt = @ + 1,
             !.pc = "next"]
    /\ Frame_retry

NextRetries ==
    \/ RetryLoop
    \/ \E outcome \in FnOutcomes : RetryAttempt(outcome)
    \/ RetrySleep

SpecRetries == InitRetries /\ [][NextRetries]_vars

\* C28: with_retries invokes fn at most 'retries' times; it returns the result
\* of the first successful attempt, after which fn is not invoked again; the
\* sleep after the k-th failed attempt lasts backoff * k; and when every one of
\* the 'retries' attempts failed, it raises the error of the last attempt.
C28_WithRetries ==
    LET c == retry_call
        n == Len(c.history)
        failed == { k \in 1..n : c.history[k] = "err" }
    IN  /\ n <= c.retries
        /\ \A k \in 1..n : c.history[k] = "ok" => (k = n /\ c.pc = "returned")
        /\ c.pc = "returned" => (n >= 1 /\ c.history[n] = "ok" /\ c.result = n)
        /\ Len(c.sleeps) \in {Cardinality(failed), Cardinality(failed) - 1}
        /\ c.pc # "await_sleep" => Len(c.sleeps) = Cardinality(failed)
        /\ \A k \in 1..Len(c.sleeps) : c.sleeps[k] = c.backoff_sec * k
        /\ (c.pc = "raised" /\ c.retries > 0)
              => (n = c.retries /\ failed = 1..n /\ c.raised = n)
        /\ (failed = 1..c.retries /\ c.retries > 0)
              => c.pc \in {"await_sleep", "next", "raised"}

\* Three attempts failed and were followed by sleeps of once, twice and three
\* times the backoff of 1.5 s, and the error of the third was raised.
C28_Witness ==
    /\ retry_call.pc = "raised"
    /\ retry_call.retries = 3
    /\ retry_call.backoff_sec = 15
    /\ retry_call.sleeps = <<15, 30, 45>>
    /\ retry_call.raised = 3

----
\* count_vip_holders_for_token (bot/vip.py, lines 44-59), one action per wallet
\* queried.

\* The wallet lists a call may be given
VipOwners == {"w1", "w2"}
VipWalletLists ==
    {<<>>} \cup { <<a>> : a \in VipOwners }
           \cup { <<a, b>> : a \in VipOwners, b \in VipOwners }
           \cup { <<a, b, c>> : a \in VipOwners, b \in VipOwners, c \in VipOwners }

\* The uiAmount of a token account: a number, null, or a value float() rejects
UiNumber(v) == [kind |-> "num", v |-> v]
UiNull == [kind |-> "null", v |-> 0]
UiText == [kind |-> "text", v |-> 0]

\* What solana_rpc may answer for a wallet: it raises, it returns None (the
\* response has no result), or it returns the token accounts of the wallet
RpcAnswers ==
    { [kind |-> "raises", value |-> <<>>], [kind |-> "none", value |-> <<>>] }
      \cup { [kind |-> "value", value |-> accs] :
               accs \in { <<>>, <<UiNumber(0)>>, <<UiNumber(10)>>, <<UiNull>>,
                          <<UiNumber(0), UiNumber(10)>>, <<UiNull, UiNumber(10)>>,
                          <<UiText, UiNumber(10)>>, <<UiText>> } }

\* Every variable but vip_call
Frame_vip_call ==
    /\ Frame_bot
    /\ UNCHANGED <<on_message, snapshots_loop, retry_call, coin_counts,
                   coin_tier_state, last_t1_sent_utc, tier_alerts, tier_task, load_call, saver_loop, perf_counter, last_rpc_ts, rpc_task, rpc_dispatches, stop_event, bot_stop_event, bg_loops, main_pc, tracked_others>>

\* Any number counts, also a balance of zero
UiAmountIsNumber(a) == a.kind = "num"

\* line 52, 'amount and float(amount) > 0', for an amount float() accepts
UiAmountPositive(a) == a.kind = "num" /\ a.v # 0 /\ a.v > 0

\* lines 49-56: the loop over the accounts of the answer; null and zero are
\* falsy, a value float() rejects raises inside the inner try and the loop
\* continues, the first positive amount ends it
RECURSIVE AccountsHold(_)
AccountsHold(accs) ==
    IF accs = <<>> THEN FALSE
    ELSE IF Head(accs).kind = "text" THEN AccountsHold(Tail(accs))
    ELSE IF UiAmountPositive(Head(accs)) THEN TRUE
    ELSE AccountsHold(Tail(accs))

InitVipCall ==
    /\ InitEvaluator(T3_AGE_MIN_DEFAULT, {0})
    /\ InitStatsRecorder(STATS_ROI_HORIZONS_MIN, 0)
    /\ holders_call = NoHoldersCall
    /\ persist_call = NoPersistCall
    /\ shutdown = NoShutdown
    /\ state_file = NoFiles
    /\ on_message = NoMessage
    /\ snapshots_loop = NoCycle
    /\ retry_call = NoRetryCall
    /\ coin_counts = NoCounts
    /\ coin_tier_state = NoTierState
    /\ last_t1_sent_utc = NoT1Sent
    /\ tier_alerts = NoTierAlerts
    /\ tier_task = NoTierTasks
    /\ load_call = NoLoadCall
    /\ saver_loop = NoSaver
    /\ perf_counter = StartClock
    /\ last_rpc_ts = NoRpcTs
    /\ rpc_task = NoRpcTasks
    /\ rpc_dispatches = NoDispatches
    /\ stop_event = NoStop
    /\ bot_stop_event = NoStop
    /\ bg_loops = NewLoops
    /\ main_pc = MainRunning
    /\ tracked_others = NoOthers
    /\ vip_call \in { [NoVipCall EXCEPT !.mint = ca, !.vip_wallets = l] :
                        ca \in CAs, l \in VipWalletLists }

\* lines 46-58: the next wallet of the list is queried. An answer that raises,
\* or None ('res.get' raises), reaches 'except Exception: continue'.
VipQuery(answer) ==
    /\ ~vip_call.done
    /\ Len(vip_call.queried) < Len(vip_call.vip_wallets)
    /\ LET owner == vip_call.vip_wallets[Len(vip_call.queried) + 1]
       IN  vip_call' =
             [vip_call EXCEPT
                !.queried = Append(@, owner),
                !.answers = Append(@, answer),
                !.holders = IF answer.kind = "value" /\ AccountsHold(answer.value)
                            THEN @ \cup {owner} ELSE @]
    /\ Frame_vip_call

\* line 59: after the last wallet the set is returned
VipReturn ==
    /\ ~vip_call.done
    /\ Len(vip_call.queried) = Len(vip_call.vip_wallets)
    /\ vip_call' = [vip_call EXCEPT !.done = TRUE]
    /\ Frame_vip_call

NextVipCall ==
    \/ \E answer \in RpcAnswers : VipQuery(answer)
    \/ VipReturn

SpecVipCall == InitVipCall /\ [][NextVipCall]_vars

\* C29: count_vip_holders_for_token queries the wallets of the list in order,
\* each once, whatever the earlier queries did, and returns exactly the wallets
\* whose query returned an account with a balance above zero.
C29_VipHoldersExact ==
    LET c == vip_call
        positive(k) == /\ c.answers[k].kind = "value"
                       /\ \E j \in 1..Len(c.answers[k].value) :
                             /\ c.answers[k].value[j].kind = "num"
                             /\ c.answers[k].value[j].v > 0
    IN  /\ Len(c.queried) <= Len(c.vip_wallets)
        /\ \A k \in 1..Len(c.queried) : c.queried[k] = c.vip_wallets[k]
        /\ c.done =>
             /\ c.queried = c.vip_wallets
             /\ c.holders = { c.vip_wallets[k] :
                                k \in { i \in 1..Len(c.vip_wallets) : positive(i) } }

\* The query of the first wallet raised, the second wallet was still queried
\* and holds the entity, the third has a balance of zero: the call returned
\* the second wallet alone.
C29_Witness ==
    /\ vip_call.done
    /\ vip_call.vip_wallets = <<"w1", "w2", "w1">>
    /\ vip_call.answers[1].kind = "raises"
    /\ vip_call.answers[2].value = <<UiNumber(10)>>
    /\ vip_call.answers[3].value = <<UiNumber(0)>>
    /\ vip_call.holders = {"w2"}

----
\* The count-based alert path of Bot._on_message (telegram.py, lines 337-354)
\* and Bot._maybe_send_tiered_alert (lines 449-468), taken when the evaluator is
\* disabled; one action per stretch of code between two suspensions. Telethon
\* runs the handler of every message as a task of its own.

\* config.py, lines 93-98 (defaults)
T1_IMMEDIATE == TRUE
COOLDOWN_MINUTES_T1 == 0
T2_THRESHOLD_CALLS == 2
HOT_THRESHOLD == 4
T3_THRESHOLD_CALLS == HOT_THRESHOLD

\* Bounds: mentions counted per entity, seconds of the run (shorter than
\* HOT_RESET_HOURS, so that coin_counts is not reset)
MaxCounts == 4
MaxTierSeconds == 60

\* What no step of the count-based path writes
Frame_tiered ==
    /\ UNCHANGED <<mentions_by_ca, last_rank_sent, safety_cache, dex_cache,
                   vip_holders_by_ca, t1_price_usd, first_seen_ts,
                   peak_liquidity_usd, others_ranked, others_priced, watcher_keys,
                   pc, ev, running, alerts, signals, now>>
    /\ UNCHANGED <<T3_AGE_MIN_MINUTES, holders_call, persist_call, shutdown,
                   state_file, on_message, snapshots_loop, retry_call, vip_call, load_call, saver_loop, perf_counter, last_rpc_ts, rpc_task, rpc_dispatches, stop_event, bot_stop_event, bg_loops, main_pc, tracked_others>>
    /\ Frame_stats

\* _maybe_send_tiered_alert, lines 450-468: the tier to send for this count
\* when the highest tier sent is 'highest' (0: none, the call returns)
TierDue(count, highest, last_ts, t) ==
    IF T1_IMMEDIATE /\ count = 1 /\ highest < 1
    THEN IF /\ COOLDOWN_MINUTES_T1 > 0
            /\ last_ts # -1
            /\ t - last_ts < COOLDOWN_MINUTES_T1 * 60
         THEN 0 ELSE 1
    ELSE IF count >= T2_THRESHOLD_CALLS /\ highest < 2 THEN 2
    ELSE IF count >= T3_THRESHOLD_CALLS /\ highest < 3 THEN 3
    ELSE 0

\* _on_message, lines 338-344: the mention is counted, and the handler suspends
\* in StatsRecorder.record_mention
TierCount(p, ca) ==
    /\ tier_task[p].pc = "idle"
    /\ \A q \in Tasks : TaskBefore(q, p) => tier_task[q].pc # "idle"
    /\ coin_counts[ca] < MaxCounts
    /\ coin_counts' = [coin_counts EXCEPT ![ca] = @ + 1]
    /\ tier_task' = [tier_task EXCEPT ![p] =
                       [NoTierTask EXCEPT !.pc = "await_mention", !.ca = ca,
                                          !.count = coin_counts[ca] + 1]]
    /\ UNCHANGED <<coin_tier_state, last_t1_sent_utc, tier_alerts>>
    /\ Frame_tiered

\* _on_message, line 354, and _maybe_send_tiered_alert up to its await: the
\* highest tier sent is read and compared with the count; with a tier due the
\* task suspends in _send_alert_message, with none the handler is over
TierCheck(p) ==
    /\ tier_task[p].pc = "await_mention"
    /\ LET e == tier_task[p]
           highest == coin_tier_state[e.ca]
           tier == TierDue(e.count, highest, last_t1_sent_utc[e.ca], now)
       IN  tier_task' = [tier_task EXCEPT ![p] =
                           IF tier = 0 THEN NoTierTask
                           ELSE [e EXCEPT !.pc = "await_send", !.highest = highest,
                                          !.tier = tier, !.now = now]]
    /\ UNCHANGED <<coin_counts, coin_tier_state, last_t1_sent_utc, tier_alerts>>
    /\ Frame_tiered

\* lines 457-468 with _send_alert_message (lines 436-447): the send delivered
\* the alert, or FloodWaitError / RPCError was absorbed (after the flood wait
\* was slept), and the tier is stored; any other exception leaves the call and
\* ends the handler.
TierSendReturn(p, outcome) ==
    /\ tier_task[p].pc = "await_send"
    /\ LET e == tier_task[p]
       IN  /\ tier_alerts' = IF outcome = "sent"
                             THEN [tier_alerts EXCEPT ![e.ca] = Append(@, e.tier)]
                             ELSE tier_alerts
           /\ coin_tier_state' = IF outcome = "raised" THEN coin_tier_state
                                 ELSE [coin_tier_state EXCEPT ![e.ca] = e.tier]
           /\ last_t1_sent_utc' = IF outcome # "raised" /\ e.tier = 1
                                  THEN [last_t1_sent_utc EXCEPT ![e.ca] = e.now]
                                  ELSE last_t1_sent_utc
    /\ tier_task' = [tier_task EXCEPT ![p] = NoTierTask]
    /\ UNCHANGED coin_counts
    /\ Frame_tiered

NextTiered ==
    \/ \E p \in Tasks, ca \in CAs : TierCount(p, ca)
    \/ \E p \in Tasks : TierCheck(p)
    \/ \E p \in Tasks, outcome \in SendOutcomes : TierSendReturn(p, outcome)
    \/ \E s \in ElapseSteps : Elapse(s, MaxTierSeconds)

SpecTiered == Init /\ [][NextTiered]_vars

\* C30: in the count-based path no step lowers coin_tier_state of an entity,
\* and no tier is delivered twice for an entity.
C30_TieredOncePerLevel ==
    [][ \A ca \in CAs :
          /\ coin_tier_state'[ca] >= coin_tier_state[ca]
          /\ \A i, j \in 1..Len(tier_alerts'[ca]) :
                tier_alerts'[ca][i] = tier_alerts'[ca][j] => i = j ]_vars

----
\* C31: once the conservative result (False, False) of a failed safety probe is
\* cached for an entity, the cached result stays, no evaluation starts another
\* probe of the entity, and no evaluation of the entity comes to the
\* classification T2 or T3.
C31_FailedProbeIsPermanent ==
    [][ \A ca \in CAs :
          (/\ safety_cache[ca].known
           /\ ~safety_cache[ca].mint
           /\ ~safety_cache[ca].freeze)
          => /\ safety_cache'[ca] = safety_cache[ca]
             /\ \A p \in Tasks :
                   (pc'[p] = "await_safety" /\ ev'[p].ca = ca)
                      => pc[p] = "await_safety"
             /\ \A p \in Tasks :
                   (ev'[p].ca = ca /\ ev'[p].cls \in {"T2", "T3"})
                      => ev[p].cls = ev'[p].cls ]_vars

----
\* The positions of a task before its market dict is at hand
BeforeMarket == {"idle", "safety", "await_safety", "dex", "await_dex"}

\* C32: when get_dex_metrics returns, with data or empty, the evaluation goes
\* on to the classification at once (it is not fetched again); an evaluation
\* whose market dict is empty never comes to the classification T2 or T3; and
\* its step over lines 242-247 leaves the stored peak liquidity unchanged.
C32_MarketFailureFailsClosed ==
    [][ \A p \in Tasks :
          /\ (pc[p] = "await_dex" /\ pc'[p] # "await_dex") => pc'[p] = "classify"
          /\ (pc'[p] \notin BeforeMarket /\ ~ev'[p].dex.has)
                => ev'[p].cls \notin {"T2", "T3"}
          /\ (pc[p] = "classify" /\ pc'[p] # "classify" /\ ~ev[p].dex.has)
                => peak_liquidity_usd' = peak_liquidity_usd ]_vars

\* An evaluation of a safe entity inside the T3 age window, with a peak
\* liquidity stored by an earlier evaluation, got the empty dict and ended
\* its classification with no tier above T1.
C32_Witness ==
    \E p \in Tasks :
        /\ pc[p] = "t1"
        /\ ~ev[p].dex.has
        /\ SafeOk(ev[p])
        /\ InT3Window(ev[p].age)
        /\ ev[p].cls = "none"
        /\ peak_liquidity_usd[ev[p].ca] = 100000

----
\* Bot._load_state, Bot._save_state and Bot._state_saver_loop (telegram.py,
\* lines 470-521).

\* Bound: iterations of the saver loop
MaxSaves == 2

\* A value of the file's coin_tier_state that int() rejects (JSON null)
JsonNull == -1

\* What the state file may hold when the bot starts: no file; a file that
\* read_json cannot read or parse; a JSON object with the evaluator's
\* last_rank_sent and the count-based coin_tier_state
StateFiles ==
    { MissingFile, [MissingFile EXCEPT !.kind = "unreadable"] }
      \cup { [kind |-> "dict",
              evaluator |-> [FreshState EXCEPT !.last_rank_sent = lrs],
              coin_tier_state |-> tiers] :
               lrs \in Dicts(PersistRanks), tiers \in Dicts({JsonNull, 1, 2}) }

\* Every variable but load_call and saver_loop
Frame_load ==
    /\ Frame_bot
    /\ UNCHANGED <<on_message, snapshots_loop, retry_call, vip_call, coin_counts,
                   coin_tier_state, last_t1_sent_utc, tier_alerts, tier_task, perf_counter, last_rpc_ts, rpc_task, rpc_dispatches, stop_event, bot_stop_event, bg_loops, main_pc, tracked_others>>

\* _load_state, line 490: 'self.coin_tier_state.update({str(k): int(v) ...})';
\* the dict is built before update is called, so a value int() rejects raises
\* with nothing applied
TiersLoaded(mem, tiers) ==
    IF \E k \in DOMAIN tiers : tiers[k] = JsonNull
    THEN [ok |-> FALSE, d |-> mem]
    ELSE [ok |-> TRUE, d |-> DictUpdate(mem, tiers)]

\* _load_state, lines 471-499: pc = "failed" is the except clause ('Failed to
\* load state'), "returned" the early return for no data
LoadState ==
    /\ load_call.pc = "start"
    /\ LET f == load_call.file
           m == load_call.mem
           t == TiersLoaded(m.coin_tier_state, f.coin_tier_state)
       IN  load_call' =
             IF f.kind = "unreadable" THEN [load_call EXCEPT !.pc = "failed"]
             ELSE IF f.kind = "missing" THEN [load_call EXCEPT !.pc = "returned"]
             ELSE [load_call EXCEPT
                     !.mem = [evaluator |-> load_persisted_state(m.evaluator, f.evaluator),
                              coin_tier_state |-> t.d],
                     !.pc = IF t.ok THEN "loaded" ELSE "failed"]
    /\ UNCHANGED saver_loop
    /\ Frame_load

\* _state_saver_loop, lines 515-517, with _save_state: after the sleep the
\* payload is built from the in-memory state and written; a write that raises
\* is logged inside _save_state and the loop goes on
SaveState(outcome) ==
    /\ load_call.pc # "start"
    /\ saver_loop.running
    /\ saver_loop.iterations < MaxSaves
    /\ saver_loop' =
          [saver_loop EXCEPT
             !.iterations = @ + 1,
             !.last = outcome,
             !.file = IF outcome = "saved"
                      THEN [kind |-> "dict",
                            evaluator |-> to_persisted_state(load_call.mem.evaluator),
                            coin_tier_state |-> load_call.mem.coin_tier_state]
                      ELSE @]
    /\ UNCHANGED load_call
    /\ Frame_load

InitLoad ==
    /\ InitEvaluator(T3_AGE_MIN_DEFAULT, {0})
    /\ InitStatsRecorder(STATS_ROI_HORIZONS_MIN, 0)
    /\ holders_call = NoHoldersCall
    /\ persist_call = NoPersistCall
    /\ shutdown = NoShutdown
    /\ state_file = NoFiles
    /\ on_message = NoMessage
    /\ snapshots_loop = NoCycle
    /\ retry_call = NoRetryCall
    /\ vip_call = NoVipCall
    /\ coin_counts = NoCounts
    /\ coin_tier_state = NoTierState
    /\ last_t1_sent_utc = NoT1Sent
    /\ tier_alerts = NoTierAlerts
    /\ tier_task = NoTierTasks
    /\ saver_loop = NoSaver
    /\ perf_counter = StartClock
    /\ last_rpc_ts = NoRpcTs
    /\ rpc_task = NoRpcTasks
    /\ rpc_dispatches = NoDispatches
    /\ stop_event = NoStop
    /\ bot_stop_event = NoStop
    /\ bg_loops = NewLoops
    /\ main_pc = MainRunning
    /\ tracked_others = NoOthers
    /\ load_call \in { [NoLoadCall EXCEPT !.file = f] : f \in StateFiles }

NextLoad ==
    \/ LoadState
    \/ \E outcome \in {"saved", "failed"} : SaveState(outcome)

SpecLoad == InitLoad /\ [][NextLoad]_vars

\* C33: a load that failed leaves the bot with the state of a fresh start; the
\* saver loop is running after a save that failed, and no save, failed or not,
\* changes the in-memory state.
C33_PersistenceFailuresHarmless ==
    [][ /\ load_call'.pc = "failed" => load_call'.mem = FreshBotState
        /\ saver_loop'.last = "failed" => saver_loop'.running
        /\ saver_loop' # saver_loop => load_call'.mem = load_call.mem ]_vars

----
\* The rate governor of solana_rpc (bot/apis.py, lines 137-159), one action per
\* stretch of code between two suspensions. Time is counted in ticks of 1/20 s.

\* config.py, line 182 (default)
RPC_MAX_RPS == 10
TicksPerSecond == 20

\* Bounds: ticks of the run, requests dispatched
MaxRpcTicks == 6
MaxDispatches == 3

\* line 147: min_interval = 1.0 / RPC_MAX_RPS
min_interval == TicksPerSecond \div RPC_MAX_RPS

\* Every variable but those of the governor
Frame_rpc ==
    /\ Frame_bot
    /\ UNCHANGED <<on_message, snapshots_loop, retry_call, vip_call, coin_counts,
                   coin_tier_state, last_t1_sent_utc, tier_alerts, tier_task,
                   load_call, saver_loop, stop_event, bot_stop_event, bg_loops, main_pc, tracked_others>>

\* lines 148-154 with nothing to wait for, and lines 152-154 after the sleep:
\* _last_rpc_ts is set to the clock and the request is posted
Dispatch(p) ==
    /\ last_rpc_ts' = perf_counter
    /\ rpc_dispatches' = Append(rpc_dispatches, perf_counter)
    /\ rpc_task' = [rpc_task EXCEPT ![p] = [pc |-> "await_post", wake |-> 0]]

\* lines 145-154: a task calls solana_rpc; sleep_for is computed from
\* _last_rpc_ts as it is now, and the task sleeps or dispatches at once
RpcCall(p) ==
    /\ rpc_task[p].pc = "idle"
    /\ Len(rpc_dispatches) < MaxDispatches
    /\ LET sleep_for == last_rpc_ts + min_interval - perf_counter
       IN  IF sleep_for > 0
           THEN /\ rpc_task' = [rpc_task EXCEPT
                                  ![p] = [pc |-> "await_sleep",
                                          wake |-> perf_counter + sleep_for]]
                /\ UNCHANGED <<last_rpc_ts, rpc_dispatches, stop_event, bot_stop_event, bg_loops, main_pc, tracked_others>>
           ELSE Dispatch(p)
    /\ UNCHANGED perf_counter
    /\ Frame_rpc

\* lines 151-154: the sleep is over
RpcWake(p) ==
    /\ rpc_task[p].pc = "await_sleep"
    /\ perf_counter >= rpc_task[p].wake
    /\ Dispatch(p)
    /\ UNCHANGED perf_counter
    /\ Frame_rpc

\* lines 154-159: the transport answered (or raised), solana_rpc is left
RpcReturn(p) ==
    /\ rpc_task[p].pc = "await_post"
    /\ rpc_task' = [rpc_task EXCEPT ![p] = NoRpcTask]
    /\ UNCHANGED <<perf_counter, last_rpc_ts, rpc_dispatches, stop_event, bot_stop_event, bg_loops, main_pc, tracked_others>>
    /\ Frame_rpc

\* The clock advances by a tick
RpcTick ==
    /\ perf_counter < StartClock + MaxRpcTicks
    /\ perf_counter' = perf_counter + 1
    /\ UNCHANGED <<last_rpc_ts, rpc_task, rpc_dispatches, stop_event, bot_stop_event, bg_loops, main_pc, tracked_others>>
    /\ Frame_rpc

NextRpc ==
    \/ \E p \in Tasks : RpcCall(p)
    \/ \E p \in Tasks : RpcWake(p)
    \/ \E p \in Tasks : RpcReturn(p)
    \/ RpcTick

SpecRpc == Init /\ [][NextRpc]_vars

\* C34: any two successive dispatches of solana_rpc are at least
\* 1 / RPC_MAX_RPS apart, whichever tasks made them.
C34_DispatchesSpaced ==
    \A i \in 1..Len(rpc_dispatches) - 1 :
        rpc_dispatches[i + 1] - rpc_dispatches[i] >= min_interval

----
\* Shutdown: the finally clause of main._run (main.py, lines 103-110) with
\* Bot.stop (telegram.py, lines 294-303), and the loops vip_watcher_loop
\* (vip.py, lines 68-95), _snapshots_loop (main.py, lines 48-70) and
\* Bot._state_saver_loop (telegram.py, lines 513-521). A loop task is resumed
\* from one await to the next; its 'while not stop' test runs in the same step
\* as the return of the last await of its body.

\* Bound: iterations a loop may start
MaxLoopIterations == 2

\* Every variable but those of the shutdown
Frame_stop ==
    /\ Frame_bot
    /\ UNCHANGED <<on_message, snapshots_loop, retry_call, vip_call, coin_counts,
                   coin_tier_state, last_t1_sent_utc, tier_alerts, tier_task,
                   load_call, saver_loop, perf_counter, last_rpc_ts, rpc_task,
                   rpc_dispatches, tracked_others>>

\* The event a loop tests: the saver tests Bot._stop_event, the loops started
\* by main._run test its stop_event
StopOf(l) == IF l = "state_saver" THEN bot_stop_event ELSE stop_event

\* The awaits of a loop body, in order: the watcher queries and then sleeps,
\* the other two sleep and then work
FirstAwait(l) == IF l = "vip_watcher" THEN "call" ELSE "sleep"
LastAwait(l) == IF l = "vip_watcher" THEN "sleep" ELSE "call"

\* A loop test that never ends the loop
LoopGoesOnRegardless(stopped) == TRUE

\* 'while not stop_event.is_set()'
LoopGoesOn(stopped) == ~stopped

\* The task of loop l is resumed: a cancelled task ends at its await; at the
\* end of the body (and when the task first runs) the stop event is tested and
\* the loop ends or starts its next iteration; otherwise the body goes on.
LoopStep(l) ==
    /\ bg_loops[l].pc # "done"
    /\ LET b == bg_loops[l]
           boundary == b.pc \in {"new", LastAwait(l)}
       IN  IF b.cancel
           THEN bg_loops' = [bg_loops EXCEPT ![l].pc = "done"]
           ELSE IF boundary /\ ~LoopGoesOn(StopOf(l))
           THEN bg_loops' = [bg_loops EXCEPT ![l].pc = "done"]
           ELSE IF boundary
           THEN /\ b.iterations < MaxLoopIterations
                /\ bg_loops' = [bg_loops EXCEPT
                                  ![l].pc = FirstAwait(l),
                                  ![l].iterations = @ + 1,
                                  ![l].late = @ \/ StopOf(l)]
           ELSE bg_loops' = [bg_loops EXCEPT ![l].pc = LastAwait(l)]
    /\ UNCHANGED <<stop_event, bot_stop_event, main_pc>>
    /\ Frame_stop

\* main._run, lines 104-107, and Bot.stop, lines 295-299, up to its first await:
\* both events are set and the tasks of Bot._bg_tasks are cancelled
Shutdown ==
    /\ main_pc = "running"
    /\ main_pc' = "stopping"
    /\ stop_event' = TRUE
    /\ bot_stop_event' = TRUE
    /\ bg_loops' = [bg_loops EXCEPT !["state_saver"].cancel = TRUE]
    /\ Frame_stop

\* Bot.stop, lines 298-303, and the end of main._run: the cancelled tasks are
\* gathered, the state is saved, the clients are closed; then asyncio.run
\* cancels the tasks that are left
StopFinish ==
    /\ main_pc = "stopping"
    /\ bg_loops["state_saver"].pc = "done"
    /\ main_pc' = "closed"
    /\ bg_loops' = [l \in BgLoops |-> [bg_loops[l] EXCEPT !.cancel = TRUE]]
    /\ UNCHANGED <<stop_event, bot_stop_event>>
    /\ Frame_stop

NextStop ==
    \/ \E l \in BgLoops : LoopStep(l)
    \/ Shutdown
    \/ StopFinish

\* The event loop resumes every task whose await is over, and Bot.stop goes on
\* once the tasks it gathers have ended.
SpecStop ==
    /\ Init
    /\ [][NextStop]_vars
    /\ \A l \in BgLoops : WF_vars(LoopStep(l))
    /\ WF_vars(StopFinish)

\* C35: once its stop event is set, every background loop ends, and no loop
\* starts an iteration while its stop event is set.
C35_LoopsStop ==
    /\ \A l \in BgLoops : StopOf(l) ~> bg_loops[l].pc = "done"
    /\ [](\A l \in BgLoops : ~bg_loops[l].late)

\* The watcher was in its second iteration when the stop event was set; it was
\* not cancelled, finished the iteration, tested the event and ended.
C35_Witness ==
    /\ stop_event
    /\ main_pc = "stopping"
    /\ bg_loops["vip_watcher"].pc = "done"
    /\ ~bg_loops["vip_watcher"].cancel
    /\ bg_loops["vip_watcher"].iterations = 2

----
\* Evaluator.prune_memory (evaluator.py, lines 132-158) over a mentions dict
\* that also holds keys of entities outside CAs. prune_memory is a function of
\* the evaluator's state; the states it is applied to are drawn in InitPrune.
\* tracked_others.before and .after count the keys of other entities that were
\* inserted into mentions_by_ca before and after the key of the entity of CAs,
\* all with a retained mention; .ranked says that each of them has an entry in
\* last_rank_sent and t1_price_usd (each was alerted at T1).

\* Bound: the clock at the call, seconds (four hours into the run)
PruneNow == 14400
\* Bounds: the numbers of keys of other entities ahead of and behind the entity
OthersBefore == {0, 1999, 2000}
OthersAfter == {0, 24, 25}
\* Bound: entries of last_rank_sent of entities that have no mention key (read
\* from the state file, or of entities whose mentions were pruned)
OthersUntracked == {0, 1, 2000}
\* Bound: the mention lists of the entity: none, one older than the retention,
\* one retained, both
MentionLists ==
    { <<>>, <<[ts |-> 0, channel |-> "a"]>>,
      <<[ts |-> PruneNow - 600, channel |-> "a"]>>,
      <<[ts |-> 0, channel |-> "a"], [ts |-> PruneNow - 600, channel |-> "b"]>> }
PruneRanks == {"none", "T1", "T2"}
PrunePrices == {0, 5}

Frame_prune ==
    /\ UNCHANGED <<now, safety_cache, vip_holders_by_ca, first_seen_ts,
                   peak_liquidity_usd, T3_AGE_MIN_MINUTES, pc, ev, running, alerts,
                   signals, holders_call, persist_call, shutdown, state_file,
                   on_message, snapshots_loop, retry_call, vip_call, coin_counts,
                   coin_tier_state, last_t1_sent_utc, tier_alerts, tier_task,
                   load_call, saver_loop, perf_counter, last_rpc_ts, rpc_task,
                   rpc_dispatches, stop_event, bot_stop_event, bg_loops, main_pc>>
    /\ Frame_stats

\* len(self.state.mentions_by_ca)
LenMentions ==
    tracked_others.before + tracked_others.after
        + Cardinality(TrackedKeys(mentions_by_ca))

\* lines 154 and 157, 'set(list(self.state.mentions_by_ca.keys())[:max_keys])',
\* restricted to CAs: the new dict keeps the insertion order, so the key of the
\* entity is among the first max_keys keys when fewer than max_keys keys of
\* other entities are ahead of it
keep ==
    { ca \in TrackedKeys(PrunedMentions) : tracked_others.before + 1 <= max_keys }

\* The keys of other entities among the first max_keys keys of the new dict
KeptOthers ==
    LET ahead == IF tracked_others.before <= max_keys
                 THEN tracked_others.before ELSE max_keys
        room == max_keys - ahead - Cardinality(keep)
    IN  ahead + (IF tracked_others.after <= room THEN tracked_others.after ELSE room)

\* The entries of other entities that are left by lines 153-155 (156-158)
OthersKept == IF tracked_others.ranked THEN KeptOthers ELSE 0

\* The state when a call of process_mention has returned
InitPrune ==
    /\ now = PruneNow
    /\ mentions_by_ca \in [CAs -> MentionLists]
    /\ last_rank_sent \in [CAs -> PruneRanks]
    /\ t1_price_usd \in [CAs -> PrunePrices]
    /\ \A ca \in CAs : last_rank_sent[ca] = "none" => t1_price_usd[ca] = 0
    /\ tracked_others \in
         { [before |-> b, after |-> a, ranked |-> r, pruned |-> FALSE] :
             b \in OthersBefore, a \in OthersAfter, r \in BOOLEAN }
    /\ \E u \in OthersUntracked :
         others_ranked = u + (IF tracked_others.ranked
                              THEN tracked_others.before + tracked_others.after
                              ELSE 0)
    /\ others_priced \in {0, others_ranked}
    /\ safety_cache = [ca \in CAs |-> NoSafety]
    /\ dex_cache = [ca \in CAs |-> NoDex]
    /\ vip_holders_by_ca = [ca \in CAs |-> {}]
    /\ first_seen_ts = [ca \in CAs |-> 0]
    /\ peak_liquidity_usd = [ca \in CAs |-> -1]
    /\ watcher_keys = [live |-> TRUE, keys |-> {}]
    /\ T3_AGE_MIN_MINUTES = T3_AGE_MIN_DEFAULT
    /\ pc = [p \in Tasks |-> "idle"]
    /\ ev = [p \in Tasks |-> IdleEv]
    /\ running = NoTask
    /\ alerts = [ca \in CAs |-> <<>>]
    /\ signals = [ca \in CAs |-> <<>>]
    /\ InitStatsRecorder(STATS_ROI_HORIZONS_MIN, 0)
    /\ holders_call = NoHoldersCall
    /\ persist_call = NoPersistCall
    /\ shutdown = NoShutdown
    /\ state_file = NoFiles
    /\ on_message = NoMessage
    /\ snapshots_loop = NoCycle
    /\ retry_call = NoRetryCall
    /\ vip_call = NoVipCall
    /\ coin_counts = NoCounts
    /\ coin_tier_state = NoTierState
    /\ last_t1_sent_utc = NoT1Sent
    /\ tier_alerts = NoTierAlerts
    /\ tier_task = NoTierTasks
    /\ load_call = NoLoadCall
    /\ saver_loop = NoSaver
    /\ perf_counter = StartClock
    /\ last_rpc_ts = NoRpcTs
    /\ rpc_task = NoRpcTasks
    /\ rpc_dispatches = NoDispatches
    /\ stop_event = NoStop
    /\ bot_stop_event = NoStop
    /\ bg_loops = NewLoops
    /\ main_pc = MainRunning

\* Bot._on_message, lines 351-352, and Evaluator.prune_memory, lines 132-158
PruneTracked ==
    /\ ~tracked_others.pruned
    /\ LenMentions % PRUNE_EVERY = 0
    /\ mentions_by_ca' = PrunedMentions
    /\ dex_cache' = PrunedDex
    /\ last_rank_sent' =
         IF LenLastRankSent > max_keys
         THEN [ca \in CAs |-> IF ca \in keep THEN last_rank_sent[ca] ELSE "none"]
         ELSE last_rank_sent
    /\ others_ranked' = IF LenLastRankSent > max_keys THEN OthersKept ELSE others_ranked
    /\ t1_price_usd' =
         IF LenT1Price > max_keys
         THEN [ca \in CAs |-> IF ca \in keep THEN t1_price_usd[ca] ELSE 0]
         ELSE t1_price_usd
    /\ others_priced' = IF LenT1Price > max_keys THEN OthersKept ELSE others_priced
    /\ watcher_keys' = IF watcher_keys.live
                       THEN [live |-> FALSE, keys |-> TrackedKeys(mentions_by_ca)]
                       ELSE watcher_keys
    /\ tracked_others' = [tracked_others EXCEPT !.pruned = TRUE]
    /\ Frame_prune

NextPrune == PruneTracked

SpecPrune == InitPrune /\ [][NextPrune]_vars

\* C36: prune_memory leaves last_rank_sent (t1_price_usd) unchanged while it
\* holds at most max_keys entries, and an entity that keeps a mention after the
\* pruning keeps its last_sent_tier and its reference price.
C36_PruneKeepsTracked ==
    [][/\ LenLastRankSent <= max_keys
            => last_rank_sent' = last_rank_sent /\ others_ranked' = others_ranked
       /\ LenT1Price <= max_keys
            => t1_price_usd' = t1_price_usd /\ others_priced' = others_priced
       /\ \A ca \in TrackedKeys(mentions_by_ca') :
            /\ last_rank_sent'[ca] = last_rank_sent[ca]
            /\ t1_price_usd'[ca] = t1_price_usd[ca]]_vars

----
\* Delivery and the stored tier (process_mention, lines 360-361;
\* Bot._send_evaluator_message, telegram.py, lines 385-419)

\* C37: the stored last_sent_tier of an entity is a tier whose alert was
\* delivered to the alert sink; a send that delivered nothing leaves
\* last_rank_sent as it was.
C37_TierStoredWasDelivered ==
    \A ca \in CAs :
        last_rank_sent[ca] # "none"
            => \E i \in 1..Len(alerts[ca]) : alerts[ca][i] = last_rank_sent[ca]

\* C38: an entity has a tier-1 reference price only if a send of an alert for it
\* has returned (its tier is stored or its alert is recorded) or its T1 alert
\* is being sent; a T1 send that raised leaves no reference price behind.
C38_NoPriceWithoutT1Sent ==
    \A ca \in CAs :
        t1_price_usd[ca] # 0
            => \/ last_rank_sent[ca] # "none"
               \/ \E i \in 1..Len(alerts[ca]) : alerts[ca][i] = "T1"
               \/ \E p \in Tasks : /\ pc[p] = "await_send"
                                   /\ ev[p].ca = ca
                                   /\ ev[p].cls = "T1"

----
\* first_seen_ts (process_mention, lines 209-210; prune_memory, lines 132-158)

\* C39: the first mention of an entity writes first_seen_ts with the time of
\* that mention, and no later step (a mention, an evaluation, a pruning, a
\* mention after the mention list was emptied) changes the entry.
C39_FirstSeenWrittenOnce ==
    [][\A ca \in CAs :
         /\ first_seen_ts[ca] # -1 => first_seen_ts'[ca] = first_seen_ts[ca]
         /\ first_seen_ts[ca] = -1 /\ first_seen_ts'[ca] # -1
              => /\ first_seen_ts'[ca] = now
                 /\ Len(mentions_by_ca[ca]) = 0
                 /\ Len(mentions_by_ca'[ca]) = 1]_vars

\* The mentions of the entity were all dropped as older than the retention and
\* a new mention was added: the only mention in the list is more than three
\* hours younger than first_seen_ts.
C39_Witness ==
    \E ca \in CAs :
        /\ first_seen_ts[ca] # -1
        /\ Len(mentions_by_ca[ca]) = 1
        /\ mentions_by_ca[ca][1].ts - first_seen_ts[ca] > RETENTION_HOURS * 3600

\* C40: when maybe_record_outcomes_from_snapshots starts for an entity that has
\* a recorded signal with a positive price (and no record_signal call is under
\* way), its baseline timestamp and its start price are those of one signal:
\* the earliest recorded signal of the entity whose price is positive.
C40_BaselineOfPricedSignal ==
    [][ (oc.pc = "idle" /\ oc'.pc = "loop" /\ signal_call = NoRow)
        => LET priced == { r \in signals_table :
                             r.ca = oc'.ca /\ r.price_usd > 0 }
           IN  priced # {}
                 => \E r \in priced :
                       /\ \A q \in priced : r.ts_utc <= q.ts_utc
                       /\ oc'.base_ts = r.ts_utc
                       /\ oc'.start_price = r.price_usd ]_vars

====
